---- MODULE Spec2Model ----
(***************************************************************************)
(* Model of the DumbCrawler control plane (crawler/crawler_server.py,      *)
(* crawler/crawler_watcher.py) and of the crawl engine's frontier          *)
(* (crawler/scrapy_app/dumbcrawler/spiders/crawler_spider.py), with the    *)
(* scope filter of the older spider                                        *)
(* (dumbcrawler/scrapy_app/dumbcrawler/spiders/dumb_spider.py).            *)
(*                                                                         *)
(* Supervisor side: the worker map of ProcessManager, the OS processes it  *)
(* starts together with their stdout-reader threads, the crawl_jobs table  *)
(* of the queue backend, the queue-poller (JobWatcher), the standalone     *)
(* poller (CrawlerWatcher) and the retry scheduler (RetryManager).         *)
(* Every ProcessManager method runs under self.lock and is one action.     *)
(***************************************************************************)
EXTENDS Integers, Sequences, FiniteSets, TLC

\* ---------------------------------------------------------------- bounds
NJobs == 2
MaxProcs == 3
MaxTime == 4
MaxSeeds == 2
MaxLinks == 2
MaxDepthArg == 2
MaxFetches == 3
MaxChain == 6
MaxChainFetches == 7
MaxUrlLen == 4
MaxShipFetches == 3
MaxBatchSize == 2
MaxPollErrors == 121
MaxRaising == 2
MaxOldRecords == 51
MaxSignals == 4

\* ------------------------------------------------------ program constants
max_retries == 3
SITEMAP_MAX_RECURSION_DEPTH == 5
SITEMAP_MAX_URLS == 100000
REMINDER_EVERY == 60
DEFAULT_MAX_DEPTH == 10
KEEP_FINISHED == 50

Jobs == 1..NJobs

\* Python None / a present value
None == <<>>
Some(v) == <<v>>

TerminalStatuses == {"completed", "failed", "killed"}

\* exit codes: 0 and 1 from the worker itself, -15 death by SIGTERM,
\* -9 death by SIGKILL
SIGTERM_CODE == 0 - 15
SIGKILL_CODE == 0 - 9

VARIABLES
    os_name,      \* os.name of the supervisor host: "posix" or "nt"
    now,          \* wall clock, in minutes
    processes,    \* ProcessManager.processes: job_id -> process_info
    procs,        \* OS processes started so far, indexed by pid
    result,       \* dict returned by the last ProcessManager call
    db,           \* crawl_jobs table: job_id -> row
    jwPending,    \* JobWatcher._process_pending_jobs: jobs left in its loop
    rmJobs,       \* RetryManager._check_and_retry_jobs: rows left in its loop
    cwPending,    \* CrawlerWatcher.run: jobs left in its loop
    running_jobs, \* CrawlerWatcher.running_jobs
    disabled,       \* RetryManager.disabled
    disable_reason, \* RetryManager.disable_reason
    disable_logged, \* history: times the "[RetryManager] Disabled" line was printed
    rm_errors,      \* history: error strings _retry_loop has caught
    connection_error_shown, \* JobWatcher.connection_error_shown
    consecutive_errors,     \* JobWatcher.consecutive_errors
    jw_printed,   \* history: lines the last _watch_loop iteration printed
    jw_run,       \* history: the failed polls since the last successful one
    api_key,      \* CrawlerAPIHandler.api_key
    http_request, \* the request CrawlerAPIHandler handled last
    http_response,\* what it answered, and which ProcessManager method it called
    crawl_mode,        \* DumbCrawlerSpider.crawl_mode
    start_urls,        \* DumbCrawlerSpider.start_urls (seeds, in order)
    max_depth,         \* DumbCrawlerSpider.max_depth
    scope,             \* DumbCrawlerSpider.scope
    sitemap_alternate_links, \* DumbCrawlerSpider.sitemap_alternate_links
    js_mode,           \* the spider's js_mode: "off", "auto" or "full"
    raw_page,          \* the sections that raise on the page in the pipeline
    page_item,         \* what DumbCrawlerPipeline.process_item returned
    argv_max_depth,    \* run_crawl_job: the value after --max-depth, if given
    job_details,       \* run_crawl_job.main: what fetch_job_details returned
    effective_max_depth, \* run_crawl_job.main: effective_max_depth
    paused,            \* CrawlJobController.paused
    should_stop,       \* CrawlJobController.should_stop
    pause_event,       \* CrawlJobController.pause_event: is it set?
    handled,           \* history: the signals the controller has handled
    waited,            \* history: what the last wait_if_paused returned
    _visited_urls,     \* DumbCrawlerSpider._visited_urls (normalized URLs)
    _sitemap_url_count,\* DumbCrawlerSpider._sitemap_url_count
    start_idx,         \* position of the start_requests generator
    scheduled,         \* requests handed to the engine, not yet downloaded
    seen,              \* fingerprints held by the engine's duplicate filter
    fetch_log,         \* history: one entry per download outcome
    items,             \* items yielded by the callbacks, in order
    args_max_pages,        \* run_crawl_job.main: args.max_pages (--max-pages)
    settings_maxPages,     \* run_crawl_job.main: settings.get('maxPages')
    CLOSESPIDER_PAGECOUNT, \* the Scrapy setting of that name (0: no limit)
    ship_pc,               \* where the worker run is: "start", "open", ...
    batch_size,            \* ApiPipeline.batch_size
    items_buffer,          \* ApiPipeline.items_buffer
    stats,                 \* ApiPipeline.stats
    envelopes              \* history: payloads POSTed to /api/crawl/results

httpVars == <<api_key, http_request, http_response>>

retryVars == <<disabled, disable_reason, disable_logged, rm_errors>>

watchVars == <<connection_error_shown, consecutive_errors, jw_printed,
               jw_run>>

supVars == <<os_name, now, processes, procs, result, db, jwPending, rmJobs,
             cwPending, running_jobs, httpVars, retryVars, watchVars>>

shipVars == <<args_max_pages, settings_maxPages, CLOSESPIDER_PAGECOUNT,
              ship_pc, batch_size, items_buffer, stats, envelopes>>

\* the worker's other settings, which a run never changes
pipeVars == <<raw_page, page_item>>
depthVars == <<argv_max_depth, job_details, effective_max_depth>>
ctlVars == <<paused, should_stop, pause_event, handled, waited>>
workerVars == <<js_mode, pipeVars, depthVars, ctlVars>>

spiderVars == <<crawl_mode, start_urls, max_depth, scope,
                sitemap_alternate_links, _visited_urls, _sitemap_url_count,
                start_idx, scheduled, seen, fetch_log, items, shipVars,
                workerVars>>

vars == <<supVars, spiderVars>>

\* ------------------------------------------------------------- helpers
\* DumbCrawlerSpider.__init__: js_mode = "off" unless it is given
\* no item in the pipeline
NoPage ==
    /\ raw_page = {}
    /\ page_item = <<>>

\* main has not run
NoMain ==
    /\ argv_max_depth = <<>>
    /\ job_details = <<>>
    /\ effective_max_depth = <<>>

\* CrawlJobController.__init__
NoController ==
    /\ paused = FALSE
    /\ should_stop = FALSE
    /\ pause_event = TRUE
    /\ handled = <<>>
    /\ waited = <<>>

\* the parts of a worker run that are followed on their own
NoWorkerRun == NoPage /\ NoMain /\ NoController

NoWorkerConfig == js_mode = "off" /\ NoWorkerRun

RECURSIVE Pow2(_)
Pow2(n) == IF n = 0 THEN 1 ELSE 2 * Pow2(n - 1)

RECURSIVE SortedSeq(_)
SortedSeq(S) ==
    IF S = {} THEN <<>>
    ELSE LET m == CHOOSE x \in S : \A y \in S : x <= y
         IN <<m>> \o SortedSeq(S \ {m})

NumStarted(job_id) ==
    Cardinality({p \in 1..Len(procs) :
                    procs[p].job = job_id /\ procs[p].owner = "server"})

NoResult == [op |-> "none", job_id |-> 0, status |-> "none", error |-> ""]

ExitStatus(code) == IF code = 0 THEN "completed" ELSE "failed"

\* ---------------------------------------------------------------- Init
\* ApiPipeline.__init__: an empty buffer and zeroed stats
NoStats == [pages_queued |-> 0, pages_crawled |-> 0, pages_errored |-> 0]

\* no request handled yet
NoRequest == [method |-> "none", path |-> "", job_id |-> None,
              authorization |-> <<>>]

NoResponse == [code |-> 0, called |-> "none"]

\* no failed poll since the last successful one
NoRun == [errors |-> 0, transient |-> 0, unavailable |-> 0]

\* JobWatcher.__init__
NoWatchLog ==
    /\ connection_error_shown = FALSE
    /\ consecutive_errors = 0
    /\ jw_printed = <<>>
    /\ jw_run = NoRun

\* RetryManager.__init__
NoRetryState ==
    /\ disabled = FALSE
    /\ disable_reason = None
    /\ disable_logged = 0
    /\ rm_errors = {}

\* the handler class as main leaves it, without an API key
NoHttp ==
    /\ api_key = None
    /\ http_request = NoRequest
    /\ http_response = NoResponse

\* no result shipper in this process
NoShip ==
    /\ args_max_pages = None
    /\ settings_maxPages = None
    /\ CLOSESPIDER_PAGECOUNT = 0
    /\ ship_pc = "start"
    /\ batch_size = 1
    /\ items_buffer = <<>>
    /\ stats = NoStats
    /\ envelopes = <<>>

\* no spider in this process
NoSpider ==
    /\ crawl_mode = "list"
    /\ start_urls = <<>>
    /\ max_depth = 0
    /\ scope = "domain"
    /\ sitemap_alternate_links = FALSE
    /\ NoWorkerConfig
    /\ _visited_urls = {}
    /\ _sitemap_url_count = 0
    /\ start_idx = 1
    /\ scheduled = <<>>
    /\ seen = {}
    /\ fetch_log = <<>>
    /\ items = <<>>
    /\ NoShip

\* The supervisor starts at time t with an empty worker map; the queue holds
\* pending jobs and jobs that failed at time 0 under an earlier supervisor.
InitAt(t) ==
    /\ os_name \in {"posix", "nt"}
    /\ now = t
    /\ processes = <<>>
    /\ procs = <<>>
    /\ result = NoResult
    /\ db \in [Jobs -> {[status |-> "pending", retry_count |-> 0,
                         failed_at |-> None]}
                       \cup {[status |-> "failed", retry_count |-> rc,
                              failed_at |-> Some(0)] : rc \in 0..max_retries}]
    /\ jwPending = <<>>
    /\ rmJobs = <<>>
    /\ cwPending = <<>>
    /\ running_jobs = {}
    /\ NoHttp
    /\ NoRetryState
    /\ NoWatchLog
    /\ NoSpider

Init == InitAt(0)

Tick ==
    /\ now < MaxTime
    /\ now' = now + 1
    /\ UNCHANGED <<spiderVars, watchVars, httpVars, retryVars, os_name, processes, procs, result, db, jwPending, rmJobs,
                   cwPending, running_jobs>>

\* ------------------------------------------------ queue backend (external)
\* The ingestion API records the status carried by a worker's final batch in
\* the job's row; a failed job gets failed_at = now.
BackendRecord(d, job_id, report) ==
    IF report = "none" THEN d
    ELSE [d EXCEPT ![job_id].status = report,
                   ![job_id].failed_at =
                       IF report = "failed" THEN Some(now) ELSE @]

\* what a worker that shuts down with exit code c may have reported in its
\* final batch (ApiPipeline.close_spider; send errors are swallowed)
FinalReports(code) ==
    IF code = 0 THEN {"completed", "failed", "none"}
    ELSE IF code = 1 THEN {"failed", "none"}
    ELSE {"none"}

\* ------------------------------------------------------- worker process
\* a worker that can end by itself: one that is executing, and on Windows
\* one that got the break signal, which no handler of the worker turns into
\* a wait (CrawlJobController is never constructed) and which the crawl
\* process takes as a request to shut down
CanExit(p) ==
    \/ procs[p].state = "running"
    \/ os_name = "nt" /\ procs[p].state = "stopped"

\* The worker ends by itself: exit code 0 after the crawl, 1 on a fatal error.
WorkerExit(p) ==
    /\ p \in 1..Len(procs)
    /\ CanExit(p)
    /\ \E code \in {0, 1} : \E report \in FinalReports(code) :
         /\ procs' = [procs EXCEPT ![p].state = "exited", ![p].code = Some(code)]
         /\ db' = BackendRecord(db, procs[p].job, report)
    /\ UNCHANGED <<spiderVars, watchVars, httpVars, retryVars, os_name, now, processes, result, jwPending, rmJobs,
                   cwPending, running_jobs>>

\* ------------------------------------------------------- ProcessManager
\* a returned dict: "status", and the kind of "error" message when it has one
Ok(op, job_id, status) ==
    [op |-> op, job_id |-> job_id, status |-> status, error |-> ""]

Err(op, job_id, error) ==
    [op |-> op, job_id |-> job_id, status |-> "error", error |-> error]

\* spawn rejecting a job_id only while its record is still running
spawn_running_only(job_id, popen_ok) ==
    IF job_id \in DOMAIN processes /\ processes[job_id].status = "running"
    THEN /\ result' = Err("spawn", job_id, "already running")
         /\ UNCHANGED <<processes, procs>>
    ELSE IF ~popen_ok
    THEN /\ result' = Err("spawn", job_id, "exception")
         /\ UNCHANGED <<processes, procs>>
    ELSE /\ procs' = Append(procs, [job |-> job_id, owner |-> "server",
                                    state |-> "running", code |-> None,
                                    reader |-> "reading"])
         /\ processes' =
                (job_id :> [job_id |-> job_id, pid |-> Len(procs) + 1,
                            status |-> "running",
                            paused_at |-> None, finished_at |-> None,
                            exit_code |-> None]) @@ processes
         /\ result' = Ok("spawn", job_id, "running")

\* spawn writing the record before it knows that Popen succeeded
spawn_record_first(job_id, popen_ok) ==
    IF job_id \in DOMAIN processes
    THEN /\ result' = Err("spawn", job_id, "already running")
         /\ UNCHANGED <<processes, procs>>
    ELSE /\ procs' = Append(procs, [job |-> job_id, owner |-> "server",
                                    state |-> IF popen_ok THEN "running"
                                              ELSE "reaped",
                                    code |-> IF popen_ok THEN None
                                             ELSE Some(1),
                                    reader |-> IF popen_ok THEN "reading"
                                               ELSE "done"])
         /\ processes' = processes @@
                (job_id :> [job_id |-> job_id, pid |-> Len(procs) + 1,
                            status |-> "running",
                            paused_at |-> None, finished_at |-> None,
                            exit_code |-> None])
         /\ result' = IF popen_ok THEN Ok("spawn", job_id, "running")
                      ELSE Err("spawn", job_id, "exception")

spawn(job_id, popen_ok) ==
    IF job_id \in DOMAIN processes
    THEN /\ result' = Err("spawn", job_id, "already running")
         /\ UNCHANGED <<processes, procs>>
    ELSE IF ~popen_ok
    THEN /\ result' = Err("spawn", job_id, "exception")
         /\ UNCHANGED <<processes, procs>>
    ELSE /\ procs' = Append(procs, [job |-> job_id, owner |-> "server",
                                    state |-> "running", code |-> None,
                                    reader |-> "reading"])
         /\ processes' = processes @@
                (job_id :> [job_id |-> job_id, pid |-> Len(procs) + 1,
                            status |-> "running",
                            paused_at |-> None, finished_at |-> None,
                            exit_code |-> None])
         /\ result' = Ok("spawn", job_id, "running")

\* spawn is callable while a new process still fits the model's bound
CanSpawn(job_id) == job_id \in DOMAIN processes \/ Len(procs) < MaxProcs

\* os.kill(pid, sig): raises for a pid that no longer exists
OsKillSucceeds(pid) ==
    IF os_name = "posix" THEN procs[pid].state # "reaped" ELSE TRUE

OsKillRaises(pid) ==
    IF os_name = "posix" THEN procs[pid].state = "reaped"
    ELSE procs[pid].state \in {"exited", "reaped"}

\* for line in process.stdout ... process.wait(): the reader thread sees EOF
\* and reaps the process (outside the lock)
_read_output_wait(p) ==
    /\ p \in 1..Len(procs)
    /\ procs[p].owner = "server"
    /\ procs[p].reader = "reading"
    /\ procs[p].state \in {"exited", "reaped"}
    /\ procs' = [procs EXCEPT ![p].state = "reaped", ![p].reader = "waited"]
    /\ UNCHANGED <<spiderVars, watchVars, httpVars, retryVars, os_name, now, processes, result, db, jwPending, rmJobs,
                   cwPending, running_jobs>>

\* the reader recording "completed" whatever the exit code
_read_output_always_completed(p) ==
    /\ p \in 1..Len(procs)
    /\ procs[p].owner = "server"
    /\ procs[p].reader = "waited"
    /\ LET job_id == procs[p].job
           exit_code == procs[p].code[1]
       IN  /\ processes' =
                IF job_id \in DOMAIN processes
                THEN [processes EXCEPT
                        ![job_id].status = "completed",
                        ![job_id].exit_code = Some(exit_code),
                        ![job_id].finished_at = Some(now)]
                ELSE processes
    /\ procs' = [procs EXCEPT ![p].reader = "done"]
    /\ UNCHANGED <<spiderVars, watchVars, httpVars, retryVars, os_name, now, result, db, jwPending, rmJobs,
                   cwPending, running_jobs>>

\* ... with self.lock: record the exit
_read_output(p) ==
    /\ p \in 1..Len(procs)
    /\ procs[p].owner = "server"
    /\ procs[p].reader = "waited"
    /\ LET job_id == procs[p].job
           exit_code == procs[p].code[1]
       IN  /\ processes' =
                IF job_id \in DOMAIN processes
                THEN [processes EXCEPT
                        ![job_id].status = ExitStatus(exit_code),
                        ![job_id].exit_code = Some(exit_code),
                        ![job_id].finished_at = Some(now)]
                ELSE processes
    /\ procs' = [procs EXCEPT ![p].reader = "done"]
    /\ UNCHANGED <<spiderVars, watchVars, httpVars, retryVars, os_name, now, result, db, jwPending, rmJobs,
                   cwPending, running_jobs>>

\* pause without the check of the record's status
pause_unchecked(job_id) ==
    IF job_id \notin DOMAIN processes
    THEN /\ result' = Err("pause", job_id, "not found")
         /\ UNCHANGED <<processes, procs>>
    ELSE LET pid == processes[job_id].pid IN
         \/ /\ OsKillSucceeds(pid)
            /\ procs' = [procs EXCEPT ![pid].state =
                            IF @ = "running" THEN "stopped" ELSE @]
            /\ processes' = [processes EXCEPT ![job_id].status = "paused",
                                              ![job_id].paused_at = Some(now)]
            /\ result' = Ok("pause", job_id, "paused")
         \/ /\ OsKillRaises(pid)
            /\ result' = Err("pause", job_id, "exception")
            /\ UNCHANGED <<processes, procs>>

pause(job_id) ==
    IF job_id \notin DOMAIN processes
    THEN /\ result' = Err("pause", job_id, "not found")
         /\ UNCHANGED <<processes, procs>>
    ELSE IF processes[job_id].status # "running"
    THEN /\ result' = Err("pause", job_id, "not running")
         /\ UNCHANGED <<processes, procs>>
    ELSE LET pid == processes[job_id].pid IN
         \/ /\ OsKillSucceeds(pid)
            \* SIGSTOP suspends a live worker; CTRL_BREAK_EVENT halts its
            \* crawl ("stopped": no longer crawling because of the signal)
            /\ procs' = [procs EXCEPT ![pid].state =
                            IF @ = "running" THEN "stopped" ELSE @]
            /\ processes' = [processes EXCEPT ![job_id].status = "paused",
                                              ![job_id].paused_at = Some(now)]
            /\ result' = Ok("pause", job_id, "paused")
         \/ /\ OsKillRaises(pid)
            /\ result' = Err("pause", job_id, "exception")
            /\ UNCHANGED <<processes, procs>>

resume(job_id) ==
    IF job_id \notin DOMAIN processes
    THEN /\ result' = Err("resume", job_id, "not found")
         /\ UNCHANGED <<processes, procs>>
    ELSE IF processes[job_id].status # "paused"
    THEN /\ result' = Err("resume", job_id, "not paused")
         /\ UNCHANGED <<processes, procs>>
    ELSE LET pid == processes[job_id].pid IN
         \/ /\ os_name = "nt" \/ OsKillSucceeds(pid)
            \* posix: SIGCONT; nt: no signal is sent
            /\ procs' = [procs EXCEPT ![pid].state =
                            IF os_name # "nt" /\ @ = "stopped"
                            THEN "running" ELSE @]
            /\ processes' = [processes EXCEPT ![job_id].status = "running",
                                              ![job_id].paused_at = None]
            /\ result' = Ok("resume", job_id, "running")
         \/ /\ os_name # "nt" /\ OsKillRaises(pid)
            /\ result' = Err("resume", job_id, "exception")
            /\ UNCHANGED <<processes, procs>>

\* process.terminate(); process.wait(timeout=5): the outcomes for a process
\* in state st.  Each outcome is <<exited within 5 s?, exit code>>.
TerminateOutcomes(st, code) ==
    IF st \in {"exited", "reaped"} THEN {<<TRUE, code[1]>>}
    ELSE IF os_name = "nt" THEN {<<TRUE, 1>>}             \* TerminateProcess
    ELSE IF st = "stopped" THEN {<<FALSE, SIGKILL_CODE>>} \* SIGTERM stays pending
    ELSE {<<TRUE, 0>>, <<TRUE, SIGTERM_CODE>>, <<FALSE, SIGKILL_CODE>>}

\* kill that does not escalate to process.kill() after the timeout
kill_no_escalation(job_id) ==
    IF job_id \notin DOMAIN processes
    THEN /\ result' = Err("kill", job_id, "not found")
         /\ UNCHANGED <<processes, procs, db>>
    ELSE IF processes[job_id].status \in {"completed", "failed", "killed"}
    THEN /\ result' = Err("kill", job_id, "already finished")
         /\ UNCHANGED <<processes, procs, db>>
    ELSE LET pid == processes[job_id].pid IN
         \E o \in TerminateOutcomes(procs[pid].state, procs[pid].code) :
            /\ db' = db
            /\ IF o[1]
               THEN /\ procs' = [procs EXCEPT ![pid].state = "reaped",
                                              ![pid].code = Some(o[2])]
                    /\ processes' = [processes EXCEPT
                                        ![job_id].status = "killed",
                                        ![job_id].finished_at = Some(now)]
               ELSE /\ procs' = procs
                    /\ processes' = [processes EXCEPT
                                        ![job_id].status = "killed"]
            /\ result' = Ok("kill", job_id, "killed")

\* kill that marks a record it finds finished as killed, and still answers
\* with the error
kill_relabels(job_id) ==
    IF job_id \notin DOMAIN processes
    THEN /\ result' = Err("kill", job_id, "not found")
         /\ UNCHANGED <<processes, procs, db>>
    ELSE /\ processes[job_id].status \in {"completed", "failed", "killed"}
         /\ result' = Err("kill", job_id, "already finished")
         /\ processes' = [processes EXCEPT ![job_id].status = "killed"]
         /\ UNCHANGED <<procs, db>>

kill(job_id) ==
    IF job_id \notin DOMAIN processes
    THEN /\ result' = Err("kill", job_id, "not found")
         /\ UNCHANGED <<processes, procs, db>>
    ELSE IF processes[job_id].status \in {"completed", "failed", "killed"}
    THEN /\ result' = Err("kill", job_id, "already finished")
         /\ UNCHANGED <<processes, procs, db>>
    ELSE LET pid == processes[job_id].pid IN
         \E o \in TerminateOutcomes(procs[pid].state, procs[pid].code) :
           \E report \in (IF procs[pid].state = "running"
                          THEN FinalReports(o[2]) ELSE {"none"}) :
            /\ db' = BackendRecord(db, job_id, report)
            /\ IF o[1]
               THEN \* exited within the grace period; wait() reaped it
                    /\ procs' = [procs EXCEPT ![pid].state = "reaped",
                                              ![pid].code = Some(o[2])]
                    /\ processes' = [processes EXCEPT
                                        ![job_id].status = "killed",
                                        ![job_id].finished_at = Some(now)]
               ELSE \* TimeoutExpired: process.kill()
                    /\ procs' = [procs EXCEPT ![pid].state = "exited",
                                              ![pid].code = Some(o[2])]
                    /\ processes' = [processes EXCEPT
                                        ![job_id].status = "killed"]
            /\ result' = Ok("kill", job_id, "killed")

get_status(job_id) ==
    IF job_id \notin DOMAIN processes
    THEN /\ result' = Err("get_status", job_id, "not found")
         /\ UNCHANGED <<processes, procs>>
    ELSE LET pid == processes[job_id].pid
             exited == procs[pid].state \in {"exited", "reaped"}
         IN  IF processes[job_id].status = "running" /\ exited
             THEN \* poll() reaps the process and yields its return code
                  /\ procs' = [procs EXCEPT ![pid].state = "reaped"]
                  /\ processes' = [processes EXCEPT
                        ![job_id].status = ExitStatus(procs[pid].code[1]),
                        ![job_id].exit_code = procs[pid].code,
                        ![job_id].finished_at = Some(now)]
                  /\ result' = Ok("get_status", job_id,
                                   ExitStatus(procs[pid].code[1]))
             ELSE /\ result' = Ok("get_status", job_id,
                                   processes[job_id].status)
                  /\ UNCHANGED <<processes, procs>>

\* ------------------------------------------------------ HTTP surface
HttpSpawn(job_id) ==
    /\ CanSpawn(job_id)
    /\ \E popen_ok \in BOOLEAN : spawn(job_id, popen_ok)
    /\ UNCHANGED <<spiderVars, watchVars, httpVars, retryVars, os_name, now, db, jwPending, rmJobs, cwPending, running_jobs>>

HttpPause(job_id) ==
    /\ pause(job_id)
    /\ UNCHANGED <<spiderVars, watchVars, httpVars, retryVars, os_name, now, db, jwPending, rmJobs, cwPending, running_jobs>>

HttpResume(job_id) ==
    /\ resume(job_id)
    /\ UNCHANGED <<spiderVars, watchVars, httpVars, retryVars, os_name, now, db, jwPending, rmJobs, cwPending, running_jobs>>

HttpKill(job_id) ==
    /\ kill(job_id)
    /\ UNCHANGED <<spiderVars, watchVars, httpVars, retryVars, os_name, now, jwPending, rmJobs, cwPending, running_jobs>>

HttpStatus(job_id) ==
    /\ get_status(job_id)
    /\ UNCHANGED <<spiderVars, watchVars, httpVars, retryVars, os_name, now, db, jwPending, rmJobs, cwPending, running_jobs>>

\* ------------------------------------------- CrawlerAPIHandler (requests)
\* The handler with its authentication.  A header value is the sequence of
\* its pieces ("Bearer", " ", token); a job id comes from the path, or from
\* the body for /spawn, where it may be missing.
ApiKeys == {"k1"}

\* the job the requests of this surface name
AuthJobs == {1}

AuthHeaders ==
    {<<>>, <<"Bearer", " ", "k1">>, <<"Bearer", " ", "k2">>, <<"Bearer", " ">>,
     <<"bearer", " ", "k1">>}

GetRequests ==
    {[method |-> "GET", path |-> p, job_id |-> None, authorization |-> h] :
        p \in {"/health", "/jobs", "/nowhere"}, h \in AuthHeaders}
    \cup {[method |-> "GET", path |-> "/status/", job_id |-> Some(j),
           authorization |-> h] : j \in AuthJobs, h \in AuthHeaders}

PostRequests ==
    {[method |-> "POST", path |-> p, job_id |-> None, authorization |-> h] :
        p \in {"/spawn", "/health", "/nowhere"}, h \in AuthHeaders}
    \cup {[method |-> "POST", path |-> p, job_id |-> Some(j),
           authorization |-> h] :
            p \in {"/spawn", "/pause/", "/resume/", "/kill/"},
            j \in AuthJobs, h \in AuthHeaders}

\* the mutant: any header that starts with "Bearer " is accepted
_check_auth_any_bearer(authorization) ==
    IF api_key = None THEN TRUE
    ELSE Len(authorization) >= 2 /\ authorization[1] = "Bearer"
            /\ authorization[2] = " "

_check_auth(authorization) ==
    IF api_key = None THEN TRUE
    ELSE IF Len(authorization) >= 2 /\ authorization[1] = "Bearer"
            /\ authorization[2] = " "
    THEN SubSeq(authorization, 3, Len(authorization)) = <<api_key[1]>>
    ELSE FALSE

\* _send_json without a ProcessManager call
Answer(code) ==
    /\ http_response' = [code |-> code, called |-> "none"]
    /\ UNCHANGED <<processes, procs, result, db>>

\* _send_json(result, 200 if "error" not in result else <code>)
AnswerResult(called, error_code) ==
    http_response' = [code |-> IF result'.error = "" THEN 200
                               ELSE error_code,
                      called |-> called]

do_GET(request) ==
    /\ http_request' = request
    /\ IF request.path = "/health" THEN Answer(200)
       ELSE IF ~_check_auth(request.authorization) THEN Answer(401)
       ELSE IF request.path = "/jobs"
       THEN \* list_jobs only reads the worker map
            /\ http_response' = [code |-> 200, called |-> "list_jobs"]
            /\ UNCHANGED <<processes, procs, result, db>>
       ELSE IF request.path = "/status/"
       THEN /\ get_status(request.job_id[1])
            /\ AnswerResult("get_status", 404)
            /\ UNCHANGED db
       ELSE Answer(404)
    /\ UNCHANGED <<spiderVars, watchVars, retryVars, api_key, os_name, now, jwPending, rmJobs,
                   cwPending, running_jobs>>

do_POST(request) ==
    /\ http_request' = request
    /\ IF ~_check_auth(request.authorization) THEN Answer(401)
       ELSE IF request.path = "/spawn"
       THEN IF request.job_id = None THEN Answer(400)
            ELSE /\ CanSpawn(request.job_id[1])
                 /\ \E popen_ok \in BOOLEAN :
                       spawn(request.job_id[1], popen_ok)
                 /\ AnswerResult("spawn", 400)
                 /\ UNCHANGED db
       ELSE IF request.path = "/pause/"
       THEN /\ pause(request.job_id[1])
            /\ AnswerResult("pause", 400)
            /\ UNCHANGED db
       ELSE IF request.path = "/resume/"
       THEN /\ resume(request.job_id[1])
            /\ AnswerResult("resume", 400)
            /\ UNCHANGED db
       ELSE IF request.path = "/kill/"
       THEN /\ kill(request.job_id[1])
            /\ AnswerResult("kill", 400)
       ELSE Answer(404)
    /\ UNCHANGED <<spiderVars, watchVars, retryVars, api_key, os_name, now, jwPending, rmJobs,
                   cwPending, running_jobs>>

\* ------------------------------------------------- JobWatcher (poller)
\* select id ... eq(status, pending) order(created_at): job ids are numbered
\* in creation order
_process_pending_jobs_select ==
    /\ jwPending = <<>>
    /\ jwPending' = SortedSeq({j \in Jobs : db[j].status = "pending"})
    /\ jwPending' # <<>>
    /\ UNCHANGED <<spiderVars, watchVars, httpVars, retryVars, os_name, now, processes, procs, result, db, rmJobs,
                   cwPending, running_jobs>>

\* update(status = running).eq(id, job_id).eq(status, pending)
MarkRunning(d, job_id) ==
    IF d[job_id].status = "pending"
    THEN [d EXCEPT ![job_id].status = "running"]
    ELSE d

\* one iteration of "for job in jobs": the update, then spawn whatever the
\* update did; an exception of the update leaves the loop
_process_pending_jobs ==
    /\ jwPending # <<>>
    /\ LET job_id == Head(jwPending) IN
       \/ /\ CanSpawn(job_id)
          /\ db' = MarkRunning(db, job_id)
          /\ \E popen_ok \in BOOLEAN : spawn(job_id, popen_ok)
          /\ jwPending' = Tail(jwPending)
       \/ /\ jwPending' = <<>>
          /\ UNCHANGED <<db, processes, procs, result>>
    /\ UNCHANGED <<spiderVars, watchVars, httpVars, retryVars, os_name, now, rmJobs, cwPending, running_jobs>>

\* ---------------------------------------------------------- RetryManager
\* the selection with retry_count <= max_retries
RetrySelection_lte ==
    {j \in Jobs : db[j].status = "failed" /\ db[j].retry_count <= max_retries}

\* select ... eq(status, failed).lt(retry_count, max_retries)
RetrySelection ==
    {j \in Jobs : db[j].status = "failed" /\ db[j].retry_count < max_retries}

\* _retry_loop calls _check_and_retry_jobs unless self.disabled
_check_and_retry_jobs_select ==
    /\ ~disabled
    /\ rmJobs = <<>>
    /\ rmJobs' = [i \in 1..Cardinality(RetrySelection) |->
                    LET j == SortedSeq(RetrySelection)[i]
                    IN  [id |-> j, status |-> db[j].status,
                         retry_count |-> db[j].retry_count,
                         failed_at |-> db[j].failed_at]]
    /\ rmJobs' # <<>>
    /\ UNCHANGED <<spiderVars, watchVars, httpVars, retryVars, os_name, now, processes, procs, result, db, jwPending,
                   cwPending, running_jobs>>

_retry_job(job_id, retry_count, update_ok, popen_ok) ==
    IF update_ok
    THEN /\ db' = [db EXCEPT ![job_id].status = "pending",
                             ![job_id].retry_count = retry_count,
                             ![job_id].failed_at = None]
         /\ spawn(job_id, popen_ok)
    ELSE UNCHANGED <<db, processes, procs, result>>

\* the mutant: every failed job with a failed_at is due at once
BackoffElapsed_at_once(job) == job.failed_at # None

\* backoff_minutes = 2 ** retry_count; elapsed_minutes >= backoff_minutes
BackoffElapsed(job) ==
    /\ job.failed_at # None
    /\ now - job.failed_at[1] >= Pow2(job.retry_count)

\* one iteration of "for job in jobs"
_check_and_retry_jobs ==
    /\ rmJobs # <<>>
    /\ LET job == Head(rmJobs) IN
       IF BackoffElapsed(job)
       THEN /\ CanSpawn(job.id)
            /\ \E update_ok \in BOOLEAN, popen_ok \in BOOLEAN :
                  _retry_job(job.id, job.retry_count + 1, update_ok, popen_ok)
       ELSE UNCHANGED <<db, processes, procs, result>>
    /\ rmJobs' = Tail(rmJobs)
    /\ UNCHANGED <<spiderVars, watchVars, httpVars, retryVars, os_name, now, jwPending, cwPending, running_jobs>>

\* what str(e) of an exception of _check_and_retry_jobs can be, in pieces:
\* the backend's missing-column answer by message and by code, and a
\* connection failure
RetryErrorStrings ==
    {<<"column crawl_jobs.", "retry_count does not exist">>,
     <<"{'code': '", "42703", "'}">>,
     <<"connection refused">>}

\* the mutant: no error string is taken for a missing column
IsSchemaError_never(error_str) == FALSE

\* "retry_count does not exist" in error_str or "42703" in error_str
IsSchemaError(error_str) ==
    \E i \in 1..Len(error_str) :
        error_str[i] \in {"retry_count does not exist", "42703"}

\* _retry_loop's except branch: _check_and_retry_jobs raised, at its query
\* or inside its loop, whose remaining rows are abandoned
_retry_loop_except(error_str) ==
    /\ ~disabled
    /\ rm_errors' = rm_errors \cup {error_str}
    /\ IF IsSchemaError(error_str)
       THEN /\ disabled' = TRUE
            /\ disable_reason' = Some("retry_count column missing")
            /\ disable_logged' = disable_logged + 1
       ELSE UNCHANGED <<disabled, disable_reason, disable_logged>>
    /\ rmJobs' = <<>>
    /\ UNCHANGED <<spiderVars, watchVars, httpVars, os_name, now, processes, procs,
                   result, db, jwPending, cwPending, running_jobs>>

\* ------------------------------------------- CrawlerWatcher (standalone)
get_pending_jobs ==
    /\ cwPending = <<>>
    /\ cwPending' = SortedSeq({j \in Jobs : db[j].status = "pending"})
    /\ cwPending' # <<>>
    /\ UNCHANGED <<spiderVars, watchVars, httpVars, retryVars, os_name, now, processes, procs, result, db, jwPending,
                   rmJobs, running_jobs>>

\* process_job: mark_job_running returns True unless the update raised; the
\* run_crawler thread then starts the worker
process_job ==
    /\ cwPending # <<>>
    /\ LET job_id == Head(cwPending) IN
       IF job_id \in running_jobs
       THEN UNCHANGED <<db, procs, running_jobs>>
       ELSE \/ /\ Len(procs) < MaxProcs
               /\ db' = MarkRunning(db, job_id)
               /\ running_jobs' = running_jobs \cup {job_id}
               /\ procs' = Append(procs, [job |-> job_id, owner |-> "watcher",
                                          state |-> "running", code |-> None,
                                          reader |-> "reading"])
            \/ UNCHANGED <<db, procs, running_jobs>>
    /\ cwPending' = Tail(cwPending)
    /\ UNCHANGED <<spiderVars, watchVars, httpVars, retryVars, os_name, now, processes, result, jwPending, rmJobs>>

\* run_crawler: stdout drained, process.wait(), finally running_jobs.discard
run_crawler(p) ==
    /\ p \in 1..Len(procs)
    /\ procs[p].owner = "watcher"
    /\ procs[p].reader = "reading"
    /\ procs[p].state = "exited"
    /\ procs' = [procs EXCEPT ![p].state = "reaped", ![p].reader = "done"]
    /\ running_jobs' = running_jobs \ {procs[p].job}
    /\ UNCHANGED <<spiderVars, watchVars, httpVars, retryVars, os_name, now, processes, result, db, jwPending, rmJobs,
                   cwPending>>

\* ------------------------------------------------------- specifications
Workers ==
    \/ \E p \in 1..MaxProcs : WorkerExit(p)
    \/ \E p \in 1..MaxProcs : _read_output_wait(p)
    \/ \E p \in 1..MaxProcs : _read_output(p)

\* The supervisor's background loops over time: queue-poller, retry scheduler
\* and the workers they start.  The loops never read os.name.
InitSup ==
    /\ Init
    /\ os_name = "posix"

Next ==
    \/ Tick
    \/ Workers
    \/ _process_pending_jobs_select
    \/ _process_pending_jobs
    \/ _check_and_retry_jobs_select
    \/ _check_and_retry_jobs

Spec == InitSup /\ [][Next]_vars

\* The HTTP control surface with the workers it manages.
InitPM ==
    /\ Init
    /\ \A j \in Jobs : db[j].status = "pending"

NextPM ==
    \/ Workers
    \/ \E j \in Jobs : HttpSpawn(j)
    \/ \E j \in Jobs : HttpPause(j)
    \/ \E j \in Jobs : HttpResume(j)
    \/ \E j \in Jobs : HttpKill(j)
    \/ \E j \in Jobs : HttpStatus(j)

SpecPM == InitPM /\ [][NextPM]_vars

\* The same surface with the reader threads scheduled: spawn starts one daemon
\* thread per worker, every handler releases the lock when it returns, so a
\* reader whose process has exited gets to run process.wait() and then to
\* take the lock.
ReaderFairness ==
    \A p \in 1..MaxProcs :
        WF_vars(_read_output_wait(p)) /\ WF_vars(_read_output(p))

SpecPMFair == InitPM /\ [][NextPM]_vars /\ ReaderFairness

\* The two background loops with a queue backend whose answers to the retry
\* scheduler's query may be errors.  Workers end by themselves; their reader
\* threads, which only write the worker map, are left out.
NextRetry ==
    \/ Tick
    \/ \E p \in 1..MaxProcs : WorkerExit(p)
    \/ _process_pending_jobs_select
    \/ _process_pending_jobs
    \/ _check_and_retry_jobs_select
    \/ _check_and_retry_jobs
    \/ \E error_str \in RetryErrorStrings : _retry_loop_except(error_str)

SpecRetry == InitSup /\ [][NextRetry]_vars

\* The request handler alone, with or without a configured API key; the
\* workers it starts keep running.
InitAuth ==
    /\ os_name \in {"posix", "nt"}
    /\ now = 0
    /\ processes = <<>>
    /\ procs = <<>>
    /\ result = NoResult
    /\ db = [j \in Jobs |-> [status |-> "pending", retry_count |-> 0,
                             failed_at |-> None]]
    /\ jwPending = <<>>
    /\ rmJobs = <<>>
    /\ cwPending = <<>>
    /\ running_jobs = {}
    /\ api_key \in {None} \cup {Some(k) : k \in ApiKeys}
    /\ http_request = NoRequest
    /\ http_response = NoResponse
    /\ NoRetryState
    /\ NoWatchLog
    /\ NoSpider

NextAuth ==
    \/ \E request \in GetRequests : do_GET(request)
    \/ \E request \in PostRequests : do_POST(request)

SpecAuth == InitAuth /\ [][NextAuth]_vars

\* The three callers of spawn racing: /spawn requests, the queue-poller and
\* the retry scheduler, started when every backoff has already elapsed.
InitSpawn ==
    /\ InitAt(MaxTime)
    /\ os_name = "posix"

NextSpawn ==
    \/ Workers
    \/ \E j \in Jobs : HttpSpawn(j)
    \/ _process_pending_jobs_select
    \/ _process_pending_jobs
    \/ _check_and_retry_jobs_select
    \/ _check_and_retry_jobs

SpecSpawn == InitSpawn /\ [][NextSpawn]_vars

\* The two pollers of this repository on one queue.
InitWatch ==
    /\ InitPM
    /\ os_name = "posix"

NextWatch ==
    \/ Workers
    \/ _process_pending_jobs_select
    \/ _process_pending_jobs
    \/ get_pending_jobs
    \/ process_job
    \/ \E p \in 1..MaxProcs : run_crawler(p)

SpecWatch == InitWatch /\ [][NextWatch]_vars
\* ===================================================== crawl engine (spider)
\* A URL is kept as the components urlparse() returns: scheme (urlparse
\* lowercases it), netloc as its dot-separated labels (case preserved), path
\* as its characters, and the query string.
Url(scheme, netloc, path) ==
    [scheme |-> scheme, netloc |-> netloc, path |-> path, query |-> ""]

U_x == Url("https", <<"a", "test">>, <<"/", "x">>)
U_xs == Url("https", <<"a", "test">>, <<"/", "x", "/">>)
U_Ax == Url("https", <<"A", "test">>, <<"/", "x">>)
U_y == Url("https", <<"a", "test">>, <<"/", "y">>)
U_other == Url("https", <<"b", "org">>, <<"/", "x">>)

\* page URLs of the modelled web
Urls == {U_x, U_xs, U_Ax, U_y, U_other}

S_main == Url("https", <<"a", "test">>, <<"/", "s">>)
S_nested == Url("https", <<"a", "test">>, <<"/", "n">>)
S_http == Url("http", <<"a", "test">>, <<"/", "s">>)
S_robots == Url("https", <<"a", "test">>, <<"/", "robots.txt">>)

\* response.url.endswith('/robots.txt')
IsRobotsTxt(url) ==
    /\ url.query = ""
    /\ Len(url.path) >= 2
    /\ url.path[Len(url.path) - 1] = "/"
    /\ url.path[Len(url.path)] = "robots.txt"


\* hosts whose name resolves to a private, loopback or link-local address
PrivateHosts == {<<"localhost">>}

\* where the modelled web may redirect a page request
RedirectTargets == {U_y}

\* str.lower() on the labels that occur
Lower(s) ==
    CASE s = "A" -> "a"
      [] s = "B" -> "b"
      [] s = "TEST" -> "test"
      [] s = "HTTPS" -> "https"
      [] OTHER -> s

LowerAll(labels) == [i \in DOMAIN labels |-> Lower(labels[i])]

\* str.rstrip("/") on a sequence of characters
RECURSIVE RStripSlash(_)
RStripSlash(path) ==
    IF path # <<>> /\ path[Len(path)] = "/"
    THEN RStripSlash(SubSeq(path, 1, Len(path) - 1))
    ELSE path

_normalize_url(url) ==
    [scheme |-> Lower(url.scheme),
     netloc |-> LowerAll(url.netloc),
     path |-> RStripSlash(url.path),
     query |-> url.query]

_get_domain(netloc) ==
    IF Len(netloc) >= 2 THEN SubSeq(netloc, Len(netloc) - 1, Len(netloc))
    ELSE netloc

_parse_url_info(url) ==
    [scheme |-> url.scheme,
     netloc |-> url.netloc,
     domain |-> _get_domain(url.netloc),
     path |-> RStripSlash(url.path)]

_base_urls_info == [i \in DOMAIN start_urls |-> _parse_url_info(start_urls[i])]

_is_under_path(target_path, base_path) ==
    LET target == RStripSlash(target_path)
        base == RStripSlash(base_path)
    IN IF base = <<>> THEN TRUE
       ELSE IF ~(/\ Len(target) >= Len(base)
                 /\ SubSeq(target, 1, Len(base)) = base) THEN FALSE
       ELSE IF Len(target) > Len(base) THEN target[Len(base) + 1] = "/"
       ELSE TRUE

_matches_scope(target_info, base_info) ==
    CASE scope = "subdomain" -> target_info.netloc = base_info.netloc
      [] scope = "domain" -> target_info.domain = base_info.domain
      [] scope \in {"subfolder", "subdomain+subfolder"} ->
            /\ target_info.netloc = base_info.netloc
            /\ _is_under_path(target_info.path, base_info.path)
      [] OTHER -> FALSE

_is_url_in_scope(url) ==
    \E i \in DOMAIN _base_urls_info :
        _matches_scope(_parse_url_info(url), _base_urls_info[i])

_is_private_ip(hostname) == LowerAll(hostname) \in PrivateHosts

_validate_sitemap_url_security(url) ==
    /\ url.scheme = "https"
    /\ ~_is_private_ip(url.netloc)

\* fingerprint the engine's duplicate filter keeps for a request that is not
\* marked dont_filter: the URL with its host lowercased
Fingerprint(url) == [url EXCEPT !.netloc = LowerAll(url.netloc)]

\* DumbCrawlerSpider._should_use_playwright: in auto mode "return True"
_should_use_playwright(url) ==
    IF js_mode = "full" THEN TRUE
    ELSE IF js_mode = "off" THEN FALSE
    ELSE TRUE

\* hops is history, not a field of the request: how many sitemap downloads
\* led from a seed to this sitemap request
_make_request(url, depth, dont_filter) ==
    [url |-> url, depth |-> depth, callback |-> "parse", errback |-> TRUE,
     dont_filter |-> dont_filter, sitemap_depth |-> 0, hops |-> 0,
     playwright |-> _should_use_playwright(url)]

SitemapRequest(url, errback, dont_filter, sitemap_depth) ==
    [url |-> url, depth |-> 0, callback |-> "_parse_sitemap",
     errback |-> errback, dont_filter |-> dont_filter,
     sitemap_depth |-> sitemap_depth, hops |-> 0, playwright |-> FALSE]

\* scrapy's DepthMiddleware, which the settings leave enabled: every request
\* a callback yields gets meta['depth'] = response.meta['depth'] + 1,
\* replacing the value the spider set
DepthMiddleware(response_depth, reqs) ==
    [k \in DOMAIN reqs |-> [reqs[k] EXCEPT !.depth = response_depth + 1]]

\* sitemap requests yielded while handling the download of request parent
YieldedBy(parent, reqs) ==
    [k \in DOMAIN reqs |-> [reqs[k] EXCEPT !.hops = parent.hops + 1]]

\* the engine schedules the requests a callback yielded, in order: a request
\* not marked dont_filter whose fingerprint was seen is dropped
RECURSIVE Schedule(_, _, _)
Schedule(reqs, sched, fps) ==
    IF reqs = <<>> THEN [scheduled |-> sched, seen |-> fps]
    ELSE LET r == Head(reqs)
         IN IF r.dont_filter THEN Schedule(Tail(reqs), Append(sched, r), fps)
            ELSE IF Fingerprint(r.url) \in fps
                 THEN Schedule(Tail(reqs), sched, fps)
            ELSE Schedule(Tail(reqs), Append(sched, r),
                          fps \cup {Fingerprint(r.url)})

\* no more requests are ever scheduled at once than the seeds plus what the
\* downloads yield (a urlset entry yields its loc and one alternate at most)
MaxScheduled == MaxSeeds + MaxFetches * (2 * MaxLinks)

RemoveAt(s, i) == SubSeq(s, 1, i - 1) \o SubSeq(s, i + 1, Len(s))

\* sequences of at most n elements of S
RECURSIVE SeqsUpTo(_, _)
SeqsUpTo(S, n) ==
    IF n = 0 THEN {<<>>}
    ELSE LET shorter == SeqsUpTo(S, n - 1)
         IN shorter \cup {Append(q, x) : q \in shorter, x \in S}

\* ------------------------------------------------------- the modelled web
\* links the link extractor returns for a page (unique=True)
LinkSeqs ==
    {q \in SeqsUpTo(Urls, MaxLinks) :
        \A i, j \in DOMAIN q : i # j => q[i] # q[j]}

\* response.text of a page with markup in it
HtmlBody == "<html>"

\* a downloaded page as the callbacks see it: final URL (after redirects),
\* status, whether Content-Type names a text type, whether every header value
\* is valid UTF-8, and the links in it.  A field no callback reads for a
\* response of that class takes one value.
PageResponses ==
    [url : Urls, status : {200}, text : {FALSE}, decodable : {TRUE},
     links : {<<>>}, body : {HtmlBody}]
    \cup [url : Urls, status : {200}, text : {TRUE}, decodable : {FALSE},
          links : {<<>>}, body : {HtmlBody}]
    \cup [url : Urls, status : {404}, text : {TRUE}, decodable : {TRUE},
          links : {<<>>}, body : {HtmlBody}]
    \cup [url : Urls, status : {200}, text : {TRUE}, decodable : {TRUE},
          links : LinkSeqs, body : {HtmlBody}]

\* the final URL of a download: the requested URL, or a redirect target
FinalUrls(request) == {request.url} \cup RedirectTargets

\* what the sitemaps of the modelled web list
SitemapSeeds == {S_main, S_http, S_robots}
NestedSitemaps == {S_nested, S_http}
SitemapLocs == {U_x, U_other}
AlternateSeqs == {<<>>, <<U_xs>>}

\* a chain of sitemaps, each of which may list any other, and a robots.txt
Digits == <<"0", "1", "2", "3", "4", "5", "6", "7", "8", "9">>
K(n) == Url("https", <<"a", "test">>, <<"/", "k", Digits[n + 1]>>)
K_robots == Url("https", <<"a", "test">>, <<"/", "k", "/", "robots.txt">>)
ChainSitemaps == {K(n) : n \in 0..MaxChain} \cup {K_robots}
ChainStarts == {<<K(0)>>, <<K_robots>>}

\* downloads a run is followed for: more on the chained sitemaps, whose
\* nesting has to go past SITEMAP_MAX_RECURSION_DEPTH
FetchCap == IF start_urls \in ChainStarts THEN MaxChainFetches ELSE MaxFetches

\* a downloaded sitemap as Sitemap(body) presents it; "invalid" stands for a
\* body that is no sitemap, fails to parse or has an unknown root element,
\* "robots" for the text of a robots.txt with its Sitemap: lines
SitemapResponses ==
    {[type |-> "invalid", entries |-> <<>>]}
    \cup {[type |-> "robots", entries |-> q] :
              q \in SeqsUpTo([loc : NestedSitemaps], 1)}
    \cup {[type |-> "sitemapindex", entries |-> q] :
              q \in SeqsUpTo([loc : NestedSitemaps], MaxLinks)}
    \cup {[type |-> "urlset", entries |-> q] :
              q \in SeqsUpTo([loc : SitemapLocs, alternate : AlternateSeqs],
                             MaxLinks)}

\* what the chained sitemaps answer: one nested sitemap per index or
\* robots.txt (two in one index), one or two page URLs per urlset
ChainResponses ==
    {[type |-> "invalid", entries |-> <<>>],
     [type |-> "sitemapindex", entries |-> <<[loc |-> K(1)], [loc |-> K(2)]>>]}
    \cup {[type |-> t, entries |-> <<[loc |-> u]>>] :
              t \in {"robots", "sitemapindex"}, u \in ChainSitemaps}
    \cup {[type |-> "urlset", entries |-> q] :
              q \in {<<[loc |-> U_x, alternate |-> <<>>]>>,
                     <<[loc |-> U_x, alternate |-> <<>>],
                       [loc |-> U_y, alternate |-> <<>>]>>}}

\* the chained web: K(n) is no sitemap, a urlset, or an index that lists the
\* next sitemap of the chain, itself, or the robots.txt (K(0) may list two);
\* the robots.txt names any sitemap of the chain
ChainWeb(url, response) ==
    \/ response.type \in {"invalid", "urlset", "robots"}
    \/ /\ response.type = "sitemapindex"
       /\ \E n \in 0..MaxChain :
            /\ url = K(n)
            /\ \/ /\ Len(response.entries) = 1
                  /\ response.entries[1].loc
                        \in {K(n), K_robots} \cup {K(m) : m \in {n + 1} \cap (0..MaxChain)}
               \/ n = 0 /\ Len(response.entries) = 2

\* and the pages behind them: plain HTML
ChainPages == {r \in PageResponses : r.status = 200 /\ r.text /\ r.decodable
                                      /\ r.links = <<>>}

\* history entry for the download of a request: how it ended and how many
\* items the step added
LogEntry(request, kind) ==
    [url |-> request.url, callback |-> request.callback, kind |-> kind,
     depth |-> request.depth,
     sitemap_depth |-> request.sitemap_depth, hops |-> request.hops,
     playwright |-> request.playwright,
     nitems |-> Len(items') - Len(items)]

\* ------------------------------------------------------ DumbCrawlerSpider
configVars == <<crawl_mode, start_urls, max_depth, scope,
                sitemap_alternate_links, workerVars>>

\* one iteration of the loop in start_requests (the engine pulls the
\* generator one request at a time)
start_requests ==
    /\ start_idx <= Len(start_urls)
    /\ start_idx' = start_idx + 1
    /\ LET url == start_urls[start_idx]
       IN IF crawl_mode = "sitemap"
          THEN /\ scheduled' =
                     IF _validate_sitemap_url_security(url)
                     THEN Append(scheduled, SitemapRequest(url, TRUE, TRUE, 0))
                     ELSE scheduled
               /\ UNCHANGED _visited_urls
          ELSE /\ _visited_urls' = _visited_urls \cup {_normalize_url(url)}
               /\ scheduled' = Append(scheduled, _make_request(url, 0, TRUE))
    /\ UNCHANGED <<supVars, shipVars, configVars, _sitemap_url_count, seen,
                   fetch_log,
                   items>>

_extract_page_data(response, depth) ==
    [url |-> response.url, status_code |-> Some(response.status),
     depth |-> depth, raw_html |-> response.body, error |-> FALSE]

\* the minimal item handle_error returns when the failure has no response
ErrorItem(url, depth) ==
    [url |-> url, status_code |-> None, depth |-> depth, raw_html |-> "",
     error |-> TRUE]

\* the loop of _follow_links over the extracted links: the visited set after
\* it and the requests it yields
RECURSIVE _follow_links(_, _, _)
_follow_links(links, visited, current_depth) ==
    IF links = <<>> THEN [visited |-> visited, reqs |-> <<>>]
    ELSE LET url == Head(links)
             normalized_url == _normalize_url(url)
         IN IF normalized_url \in visited \/ ~_is_url_in_scope(url)
            THEN _follow_links(Tail(links), visited, current_depth)
            ELSE LET rest == _follow_links(Tail(links),
                                           visited \cup {normalized_url},
                                           current_depth)
                 IN [visited |-> rest.visited,
                     reqs |-> <<_make_request(url, current_depth + 1, FALSE)>>
                                 \o rest.reqs]

\* the engine follows a redirect by scheduling the request again under the
\* target URL, through the duplicate filter
RedirectAllowed(request, target) ==
    request.dont_filter \/ Fingerprint(target) \notin seen

SeenAfter(request, final_url) ==
    IF final_url # request.url /\ ~request.dont_filter
    THEN seen \cup {Fingerprint(final_url)}
    ELSE seen

\* parse: the response of request i reaches the callback
\* following links while the page's depth is at most max_depth
ShouldFollow_lte(current_depth, status) ==
    /\ crawl_mode = "crawl"
    /\ current_depth <= max_depth
    /\ status = 200

\* parse: follow links only in crawl mode, within the depth limit, on a 200
ShouldFollow(current_depth, status) ==
    /\ crawl_mode = "crawl"
    /\ current_depth < max_depth
    /\ status = 200

parse(i, response) ==
    /\ i \in DOMAIN scheduled
    /\ Len(fetch_log) < FetchCap
    /\ scheduled[i].callback = "parse"
    /\ response.url \in FinalUrls(scheduled[i])
    /\ response.url # scheduled[i].url
          => RedirectAllowed(scheduled[i], response.url)
    /\ LET request == scheduled[i]
           current_depth == request.depth
           rest == RemoveAt(scheduled, i)
           seen1 == SeenAfter(request, response.url)
           visited1 == _visited_urls \cup {_normalize_url(response.url)}
       IN IF ~response.text
          THEN \* non-text response: skipped
               /\ UNCHANGED items
               /\ _visited_urls' = visited1
               /\ scheduled' = rest
               /\ seen' = seen1
               /\ fetch_log' = Append(fetch_log, LogEntry(request, "nontext"))
          ELSE IF ~response.decodable
          THEN \* _extract_response_headers raises UnicodeDecodeError
               /\ UNCHANGED items
               /\ _visited_urls' = visited1
               /\ scheduled' = rest
               /\ seen' = seen1
               /\ fetch_log' = Append(fetch_log, LogEntry(request, "raised"))
          ELSE LET follow == IF ShouldFollow(current_depth, response.status)
                             THEN _follow_links(response.links, visited1,
                                                current_depth)
                             ELSE [visited |-> visited1, reqs |-> <<>>]
                   sch == Schedule(DepthMiddleware(current_depth,
                                                   follow.reqs),
                                   rest, seen1)
               IN /\ items' = Append(items, _extract_page_data(response,
                                                               current_depth))
                  /\ _visited_urls' = follow.visited
                  /\ scheduled' = sch.scheduled
                  /\ seen' = sch.seen
                  /\ fetch_log' = Append(fetch_log, LogEntry(request, "text"))
    /\ UNCHANGED <<supVars, shipVars, configVars, _sitemap_url_count, start_idx>>

\* the redirect of request i leads to a URL the duplicate filter has seen:
\* the engine drops the request and no callback runs
redirect_filtered(i) ==
    /\ i \in DOMAIN scheduled
    /\ Len(fetch_log) < FetchCap
    /\ scheduled[i].callback = "parse"
    /\ \E target \in FinalUrls(scheduled[i]) :
          /\ target # scheduled[i].url
          /\ ~RedirectAllowed(scheduled[i], target)
    /\ scheduled' = RemoveAt(scheduled, i)
    /\ UNCHANGED items
    /\ fetch_log' = Append(fetch_log, LogEntry(scheduled[i], "filtered"))
    /\ UNCHANGED <<supVars, shipVars, configVars, _visited_urls, _sitemap_url_count,
                   start_idx, seen>>

\* handle_error: the download of request i failed without a response
\* (connection error, DNS error, timeout)
handle_error(i) ==
    /\ i \in DOMAIN scheduled
    /\ Len(fetch_log) < FetchCap
    /\ scheduled[i].errback
    /\ scheduled' = RemoveAt(scheduled, i)
    /\ items' = Append(items, ErrorItem(scheduled[i].url, scheduled[i].depth))
    /\ fetch_log' = Append(fetch_log, LogEntry(scheduled[i], "failure"))
    /\ UNCHANGED <<supVars, shipVars, configVars, _visited_urls, _sitemap_url_count,
                   start_idx, seen>>

\* the download of a request without errback (a nested sitemap) failed
download_failed(i) ==
    /\ i \in DOMAIN scheduled
    /\ Len(fetch_log) < FetchCap
    /\ ~scheduled[i].errback
    /\ scheduled' = RemoveAt(scheduled, i)
    /\ UNCHANGED items
    /\ fetch_log' = Append(fetch_log, LogEntry(scheduled[i], "failure"))
    /\ UNCHANGED <<supVars, shipVars, configVars, _visited_urls, _sitemap_url_count,
                   start_idx, seen>>

\* the URLs the urlset branch walks through, in order
RECURSIVE urls_to_crawl(_)
urls_to_crawl(entries) ==
    IF entries = <<>> THEN <<>>
    ELSE LET entry == Head(entries)
         IN <<entry.loc>>
            \o (IF sitemap_alternate_links THEN entry.alternate ELSE <<>>)
            \o urls_to_crawl(Tail(entries))

\* the urlset loop of _parse_sitemap: visited set and counter after it, and
\* the requests it yields; reaching the URL limit ends the loop
RECURSIVE UrlsetLoop(_, _, _)
UrlsetLoop(urls, visited, count) ==
    IF urls = <<>> THEN [visited |-> visited, count |-> count, reqs |-> <<>>]
    ELSE LET url == Head(urls)
             normalized_url == _normalize_url(url)
         IN IF ~_is_url_in_scope(url) \/ normalized_url \in visited
            THEN UrlsetLoop(Tail(urls), visited, count)
            ELSE IF count >= SITEMAP_MAX_URLS
            THEN [visited |-> visited, count |-> count, reqs |-> <<>>]
            ELSE LET rest == UrlsetLoop(Tail(urls),
                                        visited \cup {normalized_url},
                                        count + 1)
                 IN [visited |-> rest.visited, count |-> rest.count,
                     reqs |-> <<_make_request(url, 0, TRUE)>> \o rest.reqs]

\* the sitemapindex branch without the test of the recursion depth
NestedRequests_unlimited(entries, current_depth) ==
    [k \in DOMAIN entries |->
        SitemapRequest(entries[k].loc, FALSE, FALSE, current_depth + 1)]

\* the sitemapindex branch of _parse_sitemap: the requests it yields
NestedRequests(entries, current_depth) ==
    IF current_depth >= SITEMAP_MAX_RECURSION_DEPTH
    THEN <<>>
    ELSE [k \in DOMAIN entries |->
            SitemapRequest(entries[k].loc, FALSE, FALSE, current_depth + 1)]

\* _parse_sitemap: the response of sitemap request i reaches the callback
_parse_sitemap(i, response) ==
    /\ i \in DOMAIN scheduled
    /\ Len(fetch_log) < FetchCap
    /\ scheduled[i].callback = "_parse_sitemap"
    /\ LET request == scheduled[i]
           current_depth == request.sitemap_depth
           rest == RemoveAt(scheduled, i)
       IN /\ UNCHANGED items
          /\ fetch_log' = Append(fetch_log, LogEntry(request, response.type))
          /\ (response.type = "robots") <=> IsRobotsTxt(request.url)
          /\ CASE response.type = "robots" ->
                    \* Request(sitemap_url, callback=self._parse_sitemap)
                    LET found == [k \in DOMAIN response.entries |->
                                    SitemapRequest(response.entries[k].loc,
                                                   FALSE, FALSE, 0)]
                        sch == Schedule(DepthMiddleware(request.depth,
                                            YieldedBy(request, found)),
                                        rest, seen)
                    IN /\ scheduled' = sch.scheduled
                       /\ seen' = sch.seen
                       /\ UNCHANGED <<_visited_urls, _sitemap_url_count>>
               [] response.type = "sitemapindex" ->
                    LET nested == NestedRequests(response.entries,
                                                 current_depth)
                        sch == Schedule(DepthMiddleware(request.depth,
                                            YieldedBy(request, nested)),
                                        rest, seen)
                    IN /\ scheduled' = sch.scheduled
                       /\ seen' = sch.seen
                       /\ UNCHANGED <<_visited_urls, _sitemap_url_count>>
               [] response.type = "urlset" ->
                    LET loop == UrlsetLoop(urls_to_crawl(response.entries),
                                           _visited_urls, _sitemap_url_count)
                        sch == Schedule(DepthMiddleware(request.depth,
                                                        loop.reqs),
                                        rest, seen)
                    IN /\ scheduled' = sch.scheduled
                       /\ seen' = sch.seen
                       /\ _visited_urls' = loop.visited
                       /\ _sitemap_url_count' = loop.count
               [] OTHER ->
                    /\ scheduled' = rest
                    /\ UNCHANGED <<seen, _visited_urls, _sitemap_url_count>>
    /\ UNCHANGED <<supVars, shipVars, configVars, start_idx>>


\* One crawl worker: DumbCrawlerSpider constructed from its arguments, the
\* engine downloading what it schedules, on the modelled web.
NoSupervisor ==
    /\ os_name = "posix"
    /\ now = 0
    /\ processes = <<>>
    /\ procs = <<>>
    /\ result = NoResult
    /\ db = [j \in Jobs |-> [status |-> "running", retry_count |-> 0,
                             failed_at |-> None]]
    /\ jwPending = <<>>
    /\ rmJobs = <<>>
    /\ cwPending = <<>>
    /\ running_jobs = {}
    /\ NoHttp
    /\ NoRetryState
    /\ NoWatchLog

InitSpider ==
    /\ NoSupervisor
    /\ crawl_mode \in {"list", "crawl", "sitemap"}
    /\ start_urls \in (IF crawl_mode = "sitemap"
                       THEN SeqsUpTo(SitemapSeeds, MaxSeeds)
                       ELSE SeqsUpTo(Urls, MaxSeeds)) \ {<<>>}
    /\ max_depth \in 0..MaxDepthArg
    /\ crawl_mode # "crawl" => max_depth = 0
    /\ scope \in {"subdomain", "domain", "subfolder"}
    /\ crawl_mode = "list" => scope = "domain"
    /\ sitemap_alternate_links \in BOOLEAN
    /\ crawl_mode # "sitemap" => sitemap_alternate_links = FALSE
    /\ NoWorkerConfig
    /\ _visited_urls = {}
    /\ _sitemap_url_count = 0
    /\ start_idx = 1
    /\ scheduled = <<>>
    /\ seen = {}
    /\ fetch_log = <<>>
    /\ items = <<>>
    /\ NoShip

NextSpider ==
    \/ start_requests
    \/ \E i \in 1..MaxScheduled, response \in PageResponses :
          parse(i, response)
    \/ \E i \in 1..MaxScheduled : redirect_filtered(i)
    \/ \E i \in 1..MaxScheduled : handle_error(i)
    \/ \E i \in 1..MaxScheduled : download_failed(i)
    \/ \E i \in 1..MaxScheduled, response \in SitemapResponses :
          _parse_sitemap(i, response)

SpecSpider == InitSpider /\ [][NextSpider]_vars

\* ------------------------------------------- the scope filters, called alone
P_root == <<>>
P_blog == <<"/", "b", "l", "o", "g">>
P_blog_slash == P_blog \o <<"/">>
P_blog_x == P_blog \o <<"/", "x">>
P_blogger == P_blog \o <<"g", "e", "r">>
P_b == <<"/", "b">>

ScopeSeeds ==
    {Url("https", h, p) : h \in {<<"a", "test">>, <<"www", "a", "test">>},
                          p \in {P_root, P_blog, P_blog_slash}}

ScopeCandidates ==
    {Url("https", h, p) :
        h \in {<<"a", "test">>, <<"www", "a", "test">>, <<"nota", "test">>,
               <<"b", "org">>},
        p \in {P_root, P_blog, P_blog_slash, P_blog_x, P_blogger, P_b}}

\* str.endswith on the host labels that occur
StrEndsWith(s, t) == s = t \/ <<s, t>> \in {<<"nota", "a">>}

\* netloc.endswith(base_domain), both written label by label
NetlocEndsWith(netloc, base) ==
    LET n == Len(netloc)
        m == Len(base)
    IN IF m = 0 THEN TRUE
       ELSE /\ n >= m
            /\ SubSeq(netloc, n - m + 2, n) = SubSeq(base, 2, m)
            /\ StrEndsWith(netloc[n - m + 1], base[1])

\* target.startswith(prefix) on sequences of characters
StartsWith(target, prefix) ==
    /\ Len(target) >= Len(prefix)
    /\ SubSeq(target, 1, Len(prefix)) = prefix

\* DumbSpider (the dumbcrawler package): its two flags as the four scopes set
\* them, and the scoping variables it takes from the first start URL
restrict_to_subdomain == scope # "domain"
restrict_to_path == scope \in {"subfolder", "subdomain+subfolder"}
allowed_netloc == start_urls[1].netloc
base_domain == _get_domain(start_urls[1].netloc)
restrict_path_prefix ==
    IF start_urls[1].path # <<>>
    THEN RStripSlash(start_urls[1].path) \o <<"/">>
    ELSE <<"/">>

_is_url_allowed(url) ==
    LET target_netloc == url.netloc
        target_path == IF url.path # <<>> THEN url.path ELSE <<"/">>
    IN /\ IF restrict_to_subdomain
          THEN target_netloc = allowed_netloc
          ELSE NetlocEndsWith(target_netloc, base_domain)
       /\ restrict_to_path
            => StartsWith(target_path, RStripSlash(restrict_path_prefix))

\* one call of each spider's scope filter on a candidate URL
ScopeCall(url) ==
    /\ result' = [op |-> "scope", url |-> url,
                  in_scope |-> _is_url_in_scope(url),
                  allowed |-> _is_url_allowed(url)]
    /\ UNCHANGED <<spiderVars, watchVars, httpVars, retryVars, os_name, now, processes, procs, db, jwPending,
                   rmJobs, cwPending, running_jobs>>

InitScope ==
    /\ NoSupervisor
    /\ crawl_mode = "crawl"
    /\ start_urls \in {<<u>> : u \in ScopeSeeds}
    /\ max_depth = 0
    /\ scope \in {"subdomain", "domain", "subfolder", "subdomain+subfolder"}
    /\ sitemap_alternate_links = FALSE
    /\ NoWorkerConfig
    /\ _visited_urls = {}
    /\ _sitemap_url_count = 0
    /\ start_idx = 1
    /\ scheduled = <<>>
    /\ seen = {}
    /\ fetch_log = <<>>
    /\ items = <<>>
    /\ NoShip

NextScope == \E url \in ScopeCandidates : ScopeCall(url)

SpecScope == InitScope /\ [][NextScope]_vars

\* ------------------------------------ _normalize_url on the URL as written
\* A URL string is a sequence of pieces: the delimiters urlparse looks for,
\* and runs of letters.
UrlPieces == {"https", "HTTPS", "a", ":", "/", "?", "#", ";"}
Letters == {"https", "HTTPS", "a"}
UrlStrings == SeqsUpTo(UrlPieces, MaxUrlLen) \ {<<>>}

\* str.find for one of the characters in C, from position from; 0 if none
IndexOf(str, C, from) ==
    LET I == {i \in from..Len(str) : str[i] \in C}
    IN IF I = {} THEN 0 ELSE CHOOSE i \in I : \A j \in I : i <= j

\* str.rfind
LastIndexOf(str, C) ==
    LET I == {i \in 1..Len(str) : str[i] \in C}
    IN IF I = {} THEN 0 ELSE CHOOSE i \in I : \A j \in I : i >= j

\* schemes urllib.parse splits ";params" for (uses_params), among those that
\* can be written
uses_params == {<<>>, <<"https">>}

\* urllib.parse._splitparams: the path without the parameters of its last
\* segment
_splitparams(url) ==
    LET i == IndexOf(url, {";"}, LastIndexOf(url, {"/"}) + 1)
    IN IF i = 0 THEN url ELSE SubSeq(url, 1, i - 1)

\* urlsplit, first step: the scheme, and the URL after "scheme:"
SplitScheme(url) ==
    LET i == IndexOf(url, {":"}, 1)
    IN IF i > 1 /\ \A k \in 1..(i - 1) : url[k] \in Letters
       THEN [scheme |-> LowerAll(SubSeq(url, 1, i - 1)),
             rest |-> SubSeq(url, i + 1, Len(url))]
       ELSE [scheme |-> <<>>, rest |-> url]

\* second step: the netloc after "//", up to the next "/", "?" or "#"
SplitNetloc(url) ==
    IF Len(url) >= 2 /\ url[1] = "/" /\ url[2] = "/"
    THEN LET d == IndexOf(url, {"/", "?", "#"}, 3)
         IN IF d = 0
            THEN [netloc |-> SubSeq(url, 3, Len(url)), rest |-> <<>>]
            ELSE [netloc |-> SubSeq(url, 3, d - 1),
                  rest |-> SubSeq(url, d, Len(url))]
    ELSE [netloc |-> <<>>, rest |-> url]

\* third step: the fragment is cut off
DropFragment(url) ==
    LET f == IndexOf(url, {"#"}, 1)
    IN IF f = 0 THEN url ELSE SubSeq(url, 1, f - 1)

\* fourth step: path and query
SplitQuery(url) ==
    LET q == IndexOf(url, {"?"}, 1)
    IN IF q = 0 THEN [path |-> url, query |-> <<>>]
       ELSE [path |-> SubSeq(url, 1, q - 1),
             query |-> SubSeq(url, q + 1, Len(url))]

\* urllib.parse.urlparse: scheme, netloc, path and query of a URL string
urlparse(url) ==
    LET s1 == SplitScheme(url)
        s2 == SplitNetloc(s1.rest)
        s3 == SplitQuery(DropFragment(s2.rest))
    IN [scheme |-> s1.scheme,
        netloc |-> s2.netloc,
        path |-> IF s1.scheme \in uses_params THEN _splitparams(s3.path)
                 ELSE s3.path,
        query |-> s3.query]

\* _normalize_url, from string to string
_normalize_url_string(url) ==
    LET parsed == urlparse(url)
    IN LowerAll(parsed.scheme) \o <<":", "/", "/">>
         \o LowerAll(parsed.netloc)
         \o RStripSlash(parsed.path)
         \o (IF parsed.query # <<>> THEN <<"?">> \o parsed.query ELSE <<>>)

\* _normalize_url applied to a start URL as written
NormalizeCall ==
    /\ result = NoResult
    /\ result' = [op |-> "_normalize_url", url |-> start_urls[1],
                  once |-> _normalize_url_string(start_urls[1]),
                  twice |-> None]
    /\ UNCHANGED <<spiderVars, watchVars, httpVars, retryVars, os_name, now, processes, procs, db, jwPending,
                   rmJobs, cwPending, running_jobs>>

\* ... and applied to its own result
NormalizeAgain ==
    /\ result # NoResult
    /\ result.op = "_normalize_url"
    /\ result.twice = None
    /\ result' = [result EXCEPT
                     !.twice = Some(_normalize_url_string(result.once))]
    /\ UNCHANGED <<spiderVars, watchVars, httpVars, retryVars, os_name, now, processes, procs, db, jwPending,
                   rmJobs, cwPending, running_jobs>>

InitNormalize ==
    /\ NoSupervisor
    /\ crawl_mode = "list"
    /\ start_urls \in {<<u>> : u \in UrlStrings}
    /\ max_depth = 0
    /\ scope = "domain"
    /\ sitemap_alternate_links = FALSE
    /\ NoWorkerConfig
    /\ _visited_urls = {}
    /\ _sitemap_url_count = 0
    /\ start_idx = 1
    /\ scheduled = <<>>
    /\ seen = {}
    /\ fetch_log = <<>>
    /\ items = <<>>
    /\ NoShip

NextNormalize == NormalizeCall \/ NormalizeAgain

SpecNormalize == InitNormalize /\ [][NextNormalize]_vars

\* A sitemap-mode worker on the chained sitemaps.  The run may be one that
\* earlier urlsets, outside the modelled web, have already taken to one URL
\* below SITEMAP_MAX_URLS.
InitChain ==
    /\ NoSupervisor
    /\ crawl_mode = "sitemap"
    /\ start_urls \in ChainStarts
    /\ max_depth = 0
    /\ scope = "subdomain"
    /\ sitemap_alternate_links = FALSE
    /\ NoWorkerConfig
    /\ _visited_urls = {}
    /\ _sitemap_url_count \in {0, SITEMAP_MAX_URLS - 1}
    /\ start_idx = 1
    /\ scheduled = <<>>
    /\ seen = {}
    /\ fetch_log = <<>>
    /\ items = <<>>
    /\ NoShip

NextChain ==
    \/ start_requests
    \/ \E i \in 1..MaxScheduled, response \in ChainPages :
          parse(i, response)
    \/ \E i \in 1..MaxScheduled : handle_error(i)
    \/ \E i \in 1..MaxScheduled : download_failed(i)
    \/ \E i \in 1..MaxScheduled, response \in ChainResponses :
          /\ i \in DOMAIN scheduled
          /\ ChainWeb(scheduled[i].url, response)
          /\ _parse_sitemap(i, response)

SpecChain == InitChain /\ [][NextChain]_vars

\* ================================================ result shipper (worker run)
\* run_crawl_job.py (main, run_crawl_job, send_failure_status) and
\* pipelines.py (DumbCrawlerPipeline, ApiPipeline).  One worker run: main
\* works out max_pages, run_crawl_job configures the engine and either fails
\* before the crawl starts or opens the spider; every item a callback yields
\* goes through DumbCrawlerPipeline.process_item and then
\* ApiPipeline.process_item; close_spider ends the run.

DEFAULT_MAX_PAGES == 500

\* main: max_pages = args.max_pages or settings.get('maxPages', 500)
\* (without job details from the API: args.max_pages or 500)
main_max_pages(arg, setting) ==
    IF arg # None /\ arg[1] # 0 THEN arg[1]
    ELSE IF setting # None THEN setting[1]
    ELSE DEFAULT_MAX_PAGES

\* run_crawl_job: "if max_pages: settings.set('CLOSESPIDER_PAGECOUNT', ...)";
\* settings.py leaves the setting at the engine's default, 0 (no limit)
run_crawl_job_pagecount(max_pages) ==
    IF max_pages # 0 THEN max_pages ELSE 0

\* run_crawl_job raises ValueError before the crawl starts: sitemap mode
\* without a sitemap URL
StartupError == crawl_mode = "sitemap" /\ start_urls = <<>>

\* what urlopen and the API do with one POST
SendOutcomes == {"success", "api_error", "http_error",
                 "http_error_undecodable", "url_error"}

\* _send_batch: every exception of the try block is caught and False is
\* returned, but the HTTPError handler itself decodes the error body as
\* UTF-8, and a UnicodeDecodeError raised there leaves the method
_send_batch_raises(outcome) == outcome = "http_error_undecodable"

\* the payload of _send_batch, with the handler that sent it
Envelope(status, pages, st, by) ==
    [status |-> status, pages |-> pages, stats |-> st, by |-> by]

\* DumbCrawlerPipeline.process_item: stamps the item and returns it
DumbCrawlerPipeline_process_item(item) ==
    [url |-> item.url, status_code |-> item.status_code,
     depth |-> item.depth, raw_html |-> item.raw_html, error |-> item.error,
     crawler |-> "DumbCrawler"]

\* the fields of the item the API format keeps
_convert_to_api_format(item) ==
    [url |-> item.url, status_code |-> item.status_code,
     depth |-> item.depth, raw_html |-> item.raw_html, error |-> item.error]

\* process_item: "self.stats['pages_crawled'] += 1" for every item, then
\* pages_errored for an item with an error
CountItem(st, item) ==
    [st EXCEPT !.pages_crawled = @ + 1,
               !.pages_errored = IF item.error THEN @ + 1 ELSE @]

\* what a step of the worker run leaves alone: the supervisor, the spider's
\* frontier and the run's configuration
shipFrame == <<os_name, now, processes, procs, db, jwPending, rmJobs,
               cwPending, running_jobs, httpVars, retryVars, watchVars,
               configVars,
               _visited_urls,
               _sitemap_url_count, start_idx, scheduled, seen,
               args_max_pages, settings_maxPages, CLOSESPIDER_PAGECOUNT,
               batch_size>>

open_spider(outcome) ==
    /\ ship_pc = "start"
    /\ ~StartupError
    /\ envelopes' = Append(envelopes,
                           Envelope("running", items_buffer, stats,
                                    "open_spider"))
    /\ ship_pc' = IF _send_batch_raises(outcome) THEN "open_failed"
                  ELSE "open"
    /\ result' = [op |-> "open_spider", outcome |-> outcome,
                  raised |-> _send_batch_raises(outcome)]
    /\ UNCHANGED <<shipFrame, fetch_log, items_buffer, stats, items>>

BufferFull(buffer) == Len(buffer) >= batch_size

\* ApiPipeline.process_item.  When the buffer is not full nothing is sent
\* and the outcome is not used.
process_item(item, outcome) ==
    /\ ship_pc = "open"
    /\ LET api_item == _convert_to_api_format(item)
           buffer == Append(items_buffer, api_item)
           counted == CountItem(stats, item)
       IN /\ stats' = counted
          /\ IF BufferFull(buffer)
             THEN /\ envelopes' = Append(envelopes,
                                         Envelope("running", buffer, counted,
                                                  "process_item"))
                  /\ IF _send_batch_raises(outcome)
                     THEN /\ items_buffer' = buffer
                          /\ result' = [op |-> "process_item",
                                        item |-> item, sent |-> TRUE,
                                        outcome |-> outcome,
                                        raised |-> TRUE, returned |-> None]
                     ELSE /\ items_buffer' = <<>>
                          /\ result' = [op |-> "process_item",
                                        item |-> item, sent |-> TRUE,
                                        outcome |-> outcome,
                                        raised |-> FALSE,
                                        returned |-> Some(item)]
             ELSE /\ outcome = "success"
                  /\ envelopes' = envelopes
                  /\ items_buffer' = buffer
                  /\ result' = [op |-> "process_item", item |-> item,
                                sent |-> FALSE, outcome |-> outcome,
                                raised |-> FALSE, returned |-> Some(item)]
    /\ items' = Append(items, item)
    /\ UNCHANGED ship_pc

\* the mutant: the close envelope says "running" like the others
FinalStatus_running(st) == "running"

\* close_spider: "if self.stats['pages_crawled'] > 0"
FinalStatus(st) ==
    IF st.pages_crawled > 0 THEN "completed" ELSE "failed"

\* close_spider; the buffer is sent as it is and not cleared
close_spider(outcome) ==
    /\ ship_pc \in {"open", "open_failed"}
    /\ envelopes' = Append(envelopes,
                           Envelope(FinalStatus(stats), items_buffer, stats,
                                    "close_spider"))
    /\ ship_pc' = "closed"
    /\ result' = [op |-> "close_spider", outcome |-> outcome,
                  raised |-> _send_batch_raises(outcome)]
    /\ UNCHANGED <<shipFrame, fetch_log, items_buffer, stats, items>>

\* run_crawl_job's except branch: send_failure_status, then re-raise;
\* send_failure_status swallows every exception of its POST
send_failure_status ==
    /\ ship_pc = "start"
    /\ StartupError
    /\ envelopes' = Append(envelopes,
                           Envelope("failed", <<>>, NoStats,
                                    "send_failure_status"))
    /\ ship_pc' = "failed_to_start"
    /\ result' = [op |-> "send_failure_status", outcome |-> "success",
                  raised |-> FALSE]
    /\ UNCHANGED <<shipFrame, fetch_log, items_buffer, stats, items>>

\* responses the CloseSpider extension has counted
ResponsesReceived ==
    Cardinality({k \in 1..Len(fetch_log) :
                    fetch_log[k].kind \in {"text", "nontext"}})

\* how the download of a seed ends: a response (after the retries of a
\* status in RETRY_HTTP_CODES, and with handle_httpstatus_all whatever its
\* status) or a failure without a response
ShipFetches ==
    [kind : {"response"}, status : {200, 404, 500}, text : {TRUE},
     body : {HtmlBody}]
    \cup [kind : {"response"}, status : {404}, text : {FALSE},
          body : {HtmlBody}]
    \cup {[kind |-> "failure", status |-> 0, text |-> FALSE, body |-> ""]}

\* the items the spider's callback yields for a seed: parse for a response
\* (nothing for a non-text one), handle_error for a failed download
ScrapedItem(url, fetch) ==
    IF fetch.kind = "failure" THEN <<ErrorItem(url, 0)>>
    ELSE IF ~fetch.text THEN <<>>
    ELSE <<_extract_page_data([url |-> url, status |-> fetch.status,
                               body |-> fetch.body], 0)>>

\* how the download goes into the history
FetchKind(fetch) ==
    IF fetch.kind = "failure" THEN "failure"
    ELSE IF fetch.text THEN "text" ELSE "nontext"

\* one page of the crawl: the download, the callback's item, the pipelines
scrape(url, fetch, outcome) ==
    /\ ship_pc = "open"
    /\ Len(fetch_log) < MaxShipFetches
    /\ CLOSESPIDER_PAGECOUNT = 0 \/ ResponsesReceived < CLOSESPIDER_PAGECOUNT
    /\ IF ScrapedItem(url, fetch) = <<>>
       THEN /\ outcome = "success"
            /\ UNCHANGED <<items, items_buffer, stats, envelopes, ship_pc,
                           result>>
       ELSE process_item(
                DumbCrawlerPipeline_process_item(ScrapedItem(url, fetch)[1]),
                outcome)
    /\ fetch_log' = Append(fetch_log,
                           LogEntry(_make_request(url, 0, TRUE),
                                    FetchKind(fetch)))
    /\ UNCHANGED shipFrame

ShipUrls == {U_x, U_y}

InitShip ==
    /\ NoSupervisor
    /\ crawl_mode \in {"list", "sitemap"}
    /\ start_urls \in (IF crawl_mode = "sitemap" THEN {<<>>, <<S_main>>}
                       ELSE {<<U_x, U_y>>})
    /\ max_depth = 0
    /\ scope = "domain"
    /\ sitemap_alternate_links = FALSE
    /\ NoWorkerConfig
    /\ _visited_urls = {}
    /\ _sitemap_url_count = 0
    /\ start_idx = 1
    /\ scheduled = <<>>
    /\ seen = {}
    /\ fetch_log = <<>>
    /\ items = <<>>
    /\ args_max_pages \in {None, Some(0), Some(2)}
    /\ settings_maxPages \in {None, Some(0), Some(1)}
    /\ CLOSESPIDER_PAGECOUNT =
          run_crawl_job_pagecount(main_max_pages(args_max_pages,
                                                 settings_maxPages))
    /\ ship_pc = "start"
    /\ batch_size \in 1..MaxBatchSize
    /\ items_buffer = <<>>
    /\ stats = NoStats
    /\ envelopes = <<>>

NextShip ==
    \/ \E outcome \in SendOutcomes : open_spider(outcome)
    \/ \E url \in ShipUrls, fetch \in ShipFetches, outcome \in SendOutcomes :
          scrape(url, fetch, outcome)
    \/ \E outcome \in SendOutcomes : close_spider(outcome)
    \/ send_failure_status

SpecShip == InitShip /\ [][NextShip]_vars

\* ------------------------------------------------------------- DumbSpider
\* the spider of the dumbcrawler package, run with the same engine: mode is
\* crawl_mode, its two restrict_ flags come from scope

\* DumbSpider._should_use_playwright: in auto mode "return depth == 0"
DumbSpider_should_use_playwright(url, depth) ==
    IF js_mode = "off" THEN FALSE
    ELSE IF js_mode = "full" THEN TRUE
    ELSE IF js_mode = "auto" THEN depth = 0
    ELSE FALSE

\* DumbSpider._make_request: dont_filter=False, errback=self.handle_error
DumbSpider_make_request(url, depth) ==
    [url |-> url, depth |-> depth, callback |-> "parse", errback |-> TRUE,
     dont_filter |-> FALSE, sitemap_depth |-> 0, hops |-> 0,
     playwright |-> DumbSpider_should_use_playwright(url, depth)]

\* DumbSpider.start_requests, one seed at a time
DumbSpider_start_requests ==
    /\ start_idx <= Len(start_urls)
    /\ start_idx' = start_idx + 1
    /\ LET request == DumbSpider_make_request(start_urls[start_idx], 0)
           sch == Schedule(<<request>>, scheduled, seen)
       IN /\ scheduled' = sch.scheduled
          /\ seen' = sch.seen
    /\ UNCHANGED <<supVars, shipVars, configVars, _visited_urls,
                   _sitemap_url_count, fetch_log, items>>

\* the loop of DumbSpider.parse over the links of the page
RECURSIVE DumbSpider_follow(_, _)
DumbSpider_follow(links, depth) ==
    IF links = <<>> THEN <<>>
    ELSE IF ~_is_url_allowed(Head(links))
    THEN DumbSpider_follow(Tail(links), depth)
    ELSE <<DumbSpider_make_request(Head(links), depth + 1)>>
         \o DumbSpider_follow(Tail(links), depth)

\* the responses DumbSpider.parse is followed on: text responses whose
\* headers decode
DumbResponses == {r \in PageResponses : r.text /\ r.decodable}

\* DumbSpider.parse: always yields the item, then follows links in crawl
\* mode below max_depth
DumbSpider_parse(i, response) ==
    /\ i \in DOMAIN scheduled
    /\ Len(fetch_log) < MaxFetches
    /\ response.url \in FinalUrls(scheduled[i])
    /\ response.url # scheduled[i].url
          => RedirectAllowed(scheduled[i], response.url)
    /\ LET request == scheduled[i]
           depth == request.depth
           follow == IF crawl_mode = "crawl" /\ depth < max_depth
                     THEN DumbSpider_follow(response.links, depth)
                     ELSE <<>>
           sch == Schedule(DepthMiddleware(depth, follow),
                           RemoveAt(scheduled, i),
                           SeenAfter(request, response.url))
       IN /\ items' = Append(items, _extract_page_data(response, depth))
          /\ scheduled' = sch.scheduled
          /\ seen' = sch.seen
          /\ fetch_log' = Append(fetch_log, LogEntry(request, "text"))
    /\ UNCHANGED <<supVars, shipVars, configVars, _visited_urls,
                   _sitemap_url_count, start_idx>>

\* DumbSpider.handle_error: two log lines, nothing returned
DumbSpider_handle_error(i) ==
    /\ i \in DOMAIN scheduled
    /\ Len(fetch_log) < MaxFetches
    /\ scheduled' = RemoveAt(scheduled, i)
    /\ UNCHANGED items
    /\ fetch_log' = Append(fetch_log, LogEntry(scheduled[i], "failure"))
    /\ UNCHANGED <<supVars, shipVars, configVars, _visited_urls,
                   _sitemap_url_count, start_idx, seen>>

\* a worker whose spider is about to start: nothing fetched yet
FreshCrawl ==
    /\ NoSupervisor
    /\ sitemap_alternate_links = FALSE
    /\ _visited_urls = {}
    /\ _sitemap_url_count = 0
    /\ start_idx = 1
    /\ scheduled = <<>>
    /\ seen = {}
    /\ fetch_log = <<>>
    /\ items = <<>>
    /\ NoShip

InitDumb ==
    /\ FreshCrawl
    /\ crawl_mode \in {"list", "crawl"}
    /\ start_urls \in SeqsUpTo({U_x, U_y}, MaxSeeds) \ {<<>>}
    /\ max_depth \in 0..MaxDepthArg
    /\ crawl_mode # "crawl" => max_depth = 0
    /\ scope = "domain"
    /\ js_mode \in {"off", "auto", "full"}
    /\ NoWorkerRun

NextDumb ==
    \/ DumbSpider_start_requests
    \/ \E i \in 1..MaxScheduled, response \in DumbResponses :
          DumbSpider_parse(i, response)
    \/ \E i \in 1..MaxScheduled : DumbSpider_handle_error(i)

SpecDumb == InitDumb /\ [][NextDumb]_vars

\* DumbCrawlerSpider crawling with each js_mode; no redirect of these pages
\* leads to a URL the duplicate filter has seen
InitRender ==
    /\ FreshCrawl
    /\ crawl_mode = "crawl"
    /\ start_urls \in SeqsUpTo({U_x, U_y}, MaxSeeds) \ {<<>>}
    /\ max_depth \in 1..MaxDepthArg
    /\ scope = "domain"
    /\ js_mode \in {"off", "auto", "full"}
    /\ NoWorkerRun

NextRender ==
    \/ start_requests
    \/ \E i \in 1..MaxScheduled, response \in PageResponses :
          parse(i, response)
    \/ \E i \in 1..MaxScheduled : handle_error(i)

SpecRender == InitRender /\ [][NextRender]_vars

\* --------------------------------------------- JobWatcher (error logging)
\* what str(e) of an exception of _process_pending_jobs can be, in pieces:
\* the backend being away for a while (a 503 answer, a reset connection, a
\* timeout) ...
TransientErrors ==
    {<<"{'message': 'JSON could not be generated', 'code': ", "503", "}">>,
     <<"[Errno 104] ", "Connection reset", " by peer">>,
     <<"The read operation ", "timed out">>}

\* ... and errors that waiting does not cure
OtherErrors ==
    {<<"permission denied for table crawl_jobs">>,
     <<"Invalid API key">>}

WatchErrorStrings == TransientErrors \cup OtherErrors

\* the substrings _handle_error looks for
ConnectionErrorMarks ==
    {"500", "502", "503", "504", "cloudflare", "Cloudflare",
     "Internal server error", "Connection refused", "Connection reset",
     "timed out", "JSON could not be generated"}

\* is_connection_error = any(x in error_str for x in [...])
is_connection_error(error_str) ==
    \E i \in 1..Len(error_str) : error_str[i] \in ConnectionErrorMarks

\* the failed polls of the run, one more
RunAfter(error_str, printed) ==
    [errors |-> jw_run.errors + 1,
     transient |-> jw_run.transient
                      + (IF error_str \in TransientErrors THEN 1 ELSE 0),
     unavailable |-> jw_run.unavailable
                        + (IF printed = <<"unavailable">> THEN 1 ELSE 0)]

\* the mutant: no flag, every connection error is announced
_handle_error_prints_every_time(error_str) ==
    IF is_connection_error(error_str) THEN <<"unavailable">> ELSE <<"error">>

\* JobWatcher._handle_error: the line it prints, if any
_handle_error_prints(error_str) ==
    IF is_connection_error(error_str)
    THEN IF ~connection_error_shown THEN <<"unavailable">>
         ELSE IF (consecutive_errors + 1) % REMINDER_EVERY = 0
         THEN <<"still waiting">>
         ELSE <<>>
    ELSE <<"error">>

\* one iteration of _watch_loop in which _process_pending_jobs raised
_handle_error(error_str) ==
    /\ consecutive_errors < MaxPollErrors
    /\ consecutive_errors' = consecutive_errors + 1
    /\ connection_error_shown' =
          (connection_error_shown \/ is_connection_error(error_str))
    /\ jw_printed' = _handle_error_prints(error_str)
    /\ jw_run' = RunAfter(error_str, _handle_error_prints(error_str))
    /\ jwPending' = <<>>
    /\ UNCHANGED <<spiderVars, httpVars, retryVars, os_name, now, processes,
                   procs, result, db, rmJobs, cwPending, running_jobs>>

\* one iteration of _watch_loop in which _process_pending_jobs returned: the
\* query found no pending row
_watch_loop ==
    /\ jwPending = <<>>
    /\ \A j \in Jobs : db[j].status # "pending"
    /\ jw_printed' = IF connection_error_shown THEN <<"restored">> ELSE <<>>
    /\ connection_error_shown' = FALSE
    /\ consecutive_errors' = 0
    /\ jw_run' = NoRun
    /\ UNCHANGED <<spiderVars, httpVars, retryVars, os_name, now, processes,
                   procs, result, db, jwPending, rmJobs, cwPending,
                   running_jobs>>

\* the queue-poller alone on a queue without pending rows, the backend
\* failing at will
InitWatchLoop ==
    /\ InitSup
    /\ \A j \in Jobs : db[j].status = "failed" /\ db[j].retry_count = max_retries

NextWatchLoop ==
    \/ _watch_loop
    \/ \E error_str \in WatchErrorStrings : _handle_error(error_str)

SpecWatchLoop == InitWatchLoop /\ [][NextWatchLoop]_vars

\* ------------------------------------------------- extraction sections
\* DumbCrawlerPipeline._extract_enhanced_metadata: its sections in order, and
\* whether the section sits in a try block of its own
Sections ==
    <<[name |-> "content_metrics", guarded |-> FALSE],
      [name |-> "main_content", guarded |-> FALSE],
      [name |-> "headings", guarded |-> FALSE],
      [name |-> "seo_meta", guarded |-> FALSE],
      [name |-> "og", guarded |-> FALSE],
      [name |-> "twitter", guarded |-> FALSE],
      [name |-> "images", guarded |-> FALSE],
      [name |-> "links", guarded |-> FALSE],
      [name |-> "anchor_analysis", guarded |-> FALSE],
      [name |-> "json_ld", guarded |-> FALSE],
      [name |-> "content_age", guarded |-> FALSE],
      [name |-> "readability", guarded |-> TRUE],
      [name |-> "content_patterns", guarded |-> TRUE],
      [name |-> "heading_analysis", guarded |-> TRUE],
      [name |-> "structure_elements", guarded |-> TRUE],
      [name |-> "schema_analysis", guarded |-> TRUE],
      [name |-> "eeat_signals", guarded |-> TRUE],
      [name |-> "outbound_link_analysis", guarded |-> TRUE],
      [name |-> "hreflang", guarded |-> TRUE],
      [name |-> "temporal_signals", guarded |-> TRUE],
      [name |-> "multimedia", guarded |-> TRUE],
      [name |-> "ai_crawlability", guarded |-> TRUE]>>

SectionNames == {Sections[i].name : i \in 1..Len(Sections)}

\* the sections that raise on some page: _extract_images and _extract_links
\* call urljoin, which raises ValueError on a src or href such as
\* "http://[bad", and the extractors the code guards
RaisingSections ==
    {"images", "links"}
       \cup {Sections[i].name : i \in {j \in 1..Len(Sections) :
                                           Sections[j].guarded}}

\* the pages: the sections that raise on them, at most MaxRaising of them
Pages == {r \in SUBSET RaisingSections : Cardinality(r) <= MaxRaising}

\* the item before the pipeline: no section's field is set
BareItem == [s \in SectionNames |-> "absent"]

\* _extract_enhanced_metadata from section i on: a guarded section that
\* raises leaves {"error": str(e)} in its field, an exception of any other
\* section leaves the method, and the fields set so far stay in the item
RECURSIVE _extract_enhanced_metadata(_, _, _)
_extract_enhanced_metadata(i, item, raises) ==
    IF i > Len(Sections) THEN item
    ELSE IF Sections[i].name \notin raises
    THEN _extract_enhanced_metadata(
             i + 1, [item EXCEPT ![Sections[i].name] = "value"], raises)
    ELSE IF Sections[i].guarded
    THEN _extract_enhanced_metadata(
             i + 1, [item EXCEPT ![Sections[i].name] = "error"], raises)
    ELSE item

\* DumbCrawlerPipeline.process_item on an item with raw_html: an exception
\* of _extract_enhanced_metadata is logged, and the item is returned to the
\* next pipeline either way
extract_page ==
    /\ page_item = <<>>
    /\ page_item' = <<_extract_enhanced_metadata(1, BareItem, raw_page)>>
    /\ UNCHANGED <<supVars, crawl_mode, start_urls, max_depth, scope,
                   sitemap_alternate_links, _visited_urls, _sitemap_url_count,
                   start_idx, scheduled, seen, fetch_log, items, shipVars,
                   js_mode, raw_page, depthVars, ctlVars>>

\* one page in the pipeline
InitExtract ==
    /\ NoSupervisor
    /\ crawl_mode = "list"
    /\ start_urls = <<>>
    /\ max_depth = 0
    /\ scope = "domain"
    /\ sitemap_alternate_links = FALSE
    /\ js_mode = "off"
    /\ raw_page \in Pages
    /\ page_item = <<>>
    /\ NoMain
    /\ NoController
    /\ _visited_urls = {}
    /\ _sitemap_url_count = 0
    /\ start_idx = 1
    /\ scheduled = <<>>
    /\ seen = {}
    /\ fetch_log = <<>>
    /\ items = <<>>
    /\ NoShip

NextExtract == extract_page

SpecExtract == InitExtract /\ [][NextExtract]_vars

\* ------------------------------------------- run_crawl_job (max depth)
\* the depths a command line or a project's settings name
DepthValues == {0, 3, DEFAULT_MAX_DEPTH}

ApiCrawlModes == {"full", "urls_only", "sitemap", "all_existing"}

\* what the API answers for the job: settings.maxDepth, if any, and crawlMode
JobDetails ==
    [maxDepth : {None} \cup {Some(d) : d \in DepthValues},
     crawlMode : ApiCrawlModes]

\* argparse: --max-depth has type int and default 10
args_max_depth ==
    IF argv_max_depth = None THEN DEFAULT_MAX_DEPTH ELSE argv_max_depth[1]

\* main: max_depth_from_api is settings.get('maxDepth') when the job details
\* were fetched, None when --domain and --project-id were both given
max_depth_from_api ==
    IF job_details = None THEN None ELSE job_details[1].maxDepth

\* main: crawl_mode, "full" unless the job details say otherwise
main_crawl_mode ==
    IF job_details = None THEN "full" ELSE job_details[1].crawlMode

\* main: "Determine effective max_depth"
main_effective_max_depth ==
    /\ effective_max_depth = None
    /\ effective_max_depth' =
          Some(IF args_max_depth # DEFAULT_MAX_DEPTH THEN args_max_depth
               ELSE IF max_depth_from_api # None THEN max_depth_from_api[1]
               ELSE IF main_crawl_mode \in {"urls_only", "sitemap",
                                             "all_existing"}
               THEN 0
               ELSE 10)
    /\ UNCHANGED <<supVars, crawl_mode, start_urls, max_depth, scope,
                   sitemap_alternate_links, _visited_urls, _sitemap_url_count,
                   start_idx, scheduled, seen, fetch_log, items, shipVars,
                   js_mode, pipeVars, argv_max_depth, job_details, ctlVars>>

\* a worker started with or without --max-depth, with the job details
\* fetched or not
InitDepth ==
    /\ NoSupervisor
    /\ crawl_mode = "list"
    /\ start_urls = <<>>
    /\ max_depth = 0
    /\ scope = "domain"
    /\ sitemap_alternate_links = FALSE
    /\ js_mode = "off"
    /\ NoPage
    /\ argv_max_depth \in {None} \cup {Some(d) : d \in DepthValues}
    /\ job_details \in {None} \cup {Some(j) : j \in JobDetails}
    /\ effective_max_depth = None
    /\ NoController
    /\ _visited_urls = {}
    /\ _sitemap_url_count = 0
    /\ start_idx = 1
    /\ scheduled = <<>>
    /\ seen = {}
    /\ fetch_log = <<>>
    /\ items = <<>>
    /\ NoShip

NextDepth == main_effective_max_depth

SpecDepth == InitDepth /\ [][NextDepth]_vars

\* --------------------------------------- ProcessManager (cleanup_finished)
\* "finished": the job ids of the terminal records
Finished(ps) == {jid \in DOMAIN ps : ps[jid].status \in TerminalStatuses}

\* the ids of S in the order of the dict, which is the order of the spawns
RECURSIVE DictOrder(_, _)
DictOrder(ps, S) ==
    IF S = {} THEN <<>>
    ELSE LET first == CHOOSE j \in S : \A k \in S : ps[j].pid <= ps[k].pid
         IN  <<first>> \o DictOrder(ps, S \ {first})

\* key=lambda jid: self.processes[jid].get("finished_at", ""): a record
\* without the key sorts before every timestamp
SortKey(info) ==
    IF info.finished_at = None THEN -1 ELSE info.finished_at[1]

\* list.sort(key=...): stable, by insertion
RECURSIVE InsertSorted(_, _, _)
InsertSorted(ps, sorted, jid) ==
    IF sorted = <<>> THEN <<jid>>
    ELSE IF SortKey(ps[Head(sorted)]) <= SortKey(ps[jid])
    THEN <<Head(sorted)>> \o InsertSorted(ps, Tail(sorted), jid)
    ELSE <<jid>> \o sorted

RECURSIVE SortedByFinishedAt(_, _)
SortedByFinishedAt(ps, list) ==
    IF list = <<>> THEN <<>>
    ELSE InsertSorted(ps,
                      SortedByFinishedAt(ps, SubSeq(list, 1, Len(list) - 1)),
                      list[Len(list)])

\* finished[:-50]
Oldest(ps) ==
    LET finished == SortedByFinishedAt(ps, DictOrder(ps, Finished(ps)))
    IN  IF Len(finished) > KEEP_FINISHED
        THEN {finished[i] : i \in 1..(Len(finished) - KEEP_FINISHED)}
        ELSE {}

\* ProcessManager.cleanup_finished
cleanup_finished ==
    /\ processes' = [jid \in DOMAIN processes \ Oldest(processes)
                        |-> processes[jid]]
    /\ result' = NoResult
    /\ UNCHANGED <<spiderVars, watchVars, httpVars, retryVars, os_name, now,
                   procs, db, jwPending, rmJobs, cwPending, running_jobs>>

\* A worker map with n records of workers that ended by themselves, spawned
\* in the order of their ids and finished at the times the pattern gives ...
OldJobs(n) == (NJobs + 1)..(NJobs + n)

FinishTime(pattern, n, i) ==
    IF pattern = "ascending" THEN i
    ELSE IF pattern = "descending" THEN n + 1 - i
    ELSE (i + 1) \div 2

OldRecord(pattern, n, jid) ==
    [job_id |-> jid, pid |-> jid - NJobs,
     status |-> IF jid % 2 = 0 THEN "completed" ELSE "failed",
     paused_at |-> None,
     finished_at |-> Some(FinishTime(pattern, n, jid - NJobs)),
     exit_code |-> Some(jid % 2)]

\* ... and then the workers of Jobs, which are running or paused
LiveRecord(n, jid, status) ==
    [job_id |-> jid, pid |-> n + jid, status |-> status,
     paused_at |-> IF status = "paused" THEN Some(MaxOldRecords + 1) ELSE None,
     finished_at |-> None, exit_code |-> None]

CleanupMap(pattern, n, live) ==
    [jid \in OldJobs(n) \cup DOMAIN live |->
        IF jid \in DOMAIN live THEN LiveRecord(n, jid, live[jid])
        ELSE OldRecord(pattern, n, jid)]

CleanupProcs(n, live) ==
    [p \in 1..(n + Cardinality(DOMAIN live)) |->
        IF p <= n
        THEN [job |-> p + NJobs, owner |-> "server", state |-> "reaped",
              code |-> Some((p + NJobs) % 2), reader |-> "done"]
        ELSE [job |-> p - n, owner |-> "server",
              state |-> IF live[p - n] = "paused" THEN "stopped"
                        ELSE "running",
              code |-> None, reader |-> "reading"]]

LiveChoices ==
    UNION {[1..k -> {"running", "paused"}] : k \in 1..NJobs}

\* The clock stands at MaxOldRecords + 2, after every finished_at of the map.
\* On posix, where a kill can end in process.kill().
InitCleanup ==
    /\ os_name = "posix"
    /\ now = MaxOldRecords + 2
    /\ \E pattern \in {"ascending", "descending", "pairs"},
          n \in (KEEP_FINISHED - 1)..MaxOldRecords, live \in LiveChoices :
          /\ processes = CleanupMap(pattern, n, live)
          /\ procs = CleanupProcs(n, live)
    /\ result = NoResult
    /\ db = [j \in Jobs |-> [status |-> "running", retry_count |-> 0,
                             failed_at |-> None]]
    /\ jwPending = <<>>
    /\ rmJobs = <<>>
    /\ cwPending = <<>>
    /\ running_jobs = {}
    /\ NoHttp
    /\ NoRetryState
    /\ NoWatchLog
    /\ NoSpider

\* The live workers are killed and the map is cleaned; the reader threads
\* of the killed workers have not run yet.
NextCleanup ==
    \/ \E j \in Jobs : HttpKill(j)
    \/ cleanup_finished

SpecCleanup == InitCleanup /\ [][NextCleanup]_vars

\* -------------------------------------------------- CrawlJobController
\* what a handler of the controller leaves alone
ctlFrame == <<supVars, crawl_mode, start_urls, max_depth, scope,
              sitemap_alternate_links, _visited_urls, _sitemap_url_count,
              start_idx, scheduled, seen, fetch_log, items, shipVars,
              js_mode, pipeVars, depthVars>>

\* _setup_signal_handlers: the handlers installed on this platform
InstalledHandlers ==
    IF os_name # "nt" THEN {"stop", "pause", "resume"} ELSE {"stop", "pause"}

\* CrawlJobController._handle_pause (SIGUSR1 / SIGBREAK)
_handle_pause ==
    /\ "pause" \in InstalledHandlers
    /\ Len(handled) < MaxSignals
    /\ handled' = Append(handled, "pause")
    /\ IF ~paused
       THEN /\ paused' = TRUE
            /\ pause_event' = FALSE
       ELSE UNCHANGED <<paused, pause_event>>
    /\ UNCHANGED <<should_stop, waited, ctlFrame>>

\* CrawlJobController._handle_resume (SIGUSR2)
_handle_resume ==
    /\ "resume" \in InstalledHandlers
    /\ Len(handled) < MaxSignals
    /\ handled' = Append(handled, "resume")
    /\ IF paused
       THEN /\ paused' = FALSE
            /\ pause_event' = TRUE
       ELSE UNCHANGED <<paused, pause_event>>
    /\ UNCHANGED <<should_stop, waited, ctlFrame>>

\* CrawlJobController._handle_stop (SIGTERM, SIGINT)
_handle_stop ==
    /\ "stop" \in InstalledHandlers
    /\ Len(handled) < MaxSignals
    /\ handled' = Append(handled, "stop")
    /\ should_stop' = TRUE
    /\ pause_event' = IF paused THEN TRUE ELSE pause_event
    /\ UNCHANGED <<paused, waited, ctlFrame>>

\* CrawlJobController.wait_if_paused: pause_event.wait() returns once the
\* event is set
wait_if_paused ==
    /\ pause_event
    /\ waited' = <<~should_stop>>
    /\ UNCHANGED <<paused, should_stop, pause_event, handled, ctlFrame>>

\* a controller on either platform, its signals arriving in any order
InitController ==
    /\ InitAt(0)
    /\ \A j \in Jobs : db[j].status = "pending"

NextController ==
    \/ _handle_pause
    \/ _handle_resume
    \/ _handle_stop
    \/ wait_if_paused

SpecController == InitController /\ [][NextController]_vars

\* ------------------------------------------------------------- claims
Tracked(j) == j \in DOMAIN processes

\* C1: spawn for a job_id that is already in the worker map returns the
\* "already running" error and starts no process: while a job_id is tracked,
\* no step starts another worker process for it.
C1_TrackedJobNeverRespawned ==
    [][\A j \in Jobs :
         Tracked(j) =>
            /\ NumStarted(j)' = NumStarted(j)
            /\ (result' # result /\ result'.op = "spawn" /\ result'.job_id = j)
                  => result'.error = "already running"]_vars

C1_Witness ==
    /\ result.op = "spawn"
    /\ result.error = "already running"
    /\ NumStarted(result.job_id) = 1

\* C2: a record's status moves only running -> paused, paused -> running and
\* from running or paused to completed, failed or killed; a completed, failed
\* or killed record never changes its status again.
AllowedTransition(a, b) ==
    \/ a = b
    \/ a = "running" /\ b \in {"paused"} \cup TerminalStatuses
    \/ a = "paused" /\ b \in {"running"} \cup TerminalStatuses

C2_StatusTransitions ==
    [][\A j \in Jobs :
         (Tracked(j) /\ j \in DOMAIN processes')
            => AllowedTransition(processes[j].status, processes'[j].status)]_vars

\* C3: every reset of a failed job by the retry scheduler (its retry_count is
\* incremented) comes with a worker successfully spawned for it, unless the
\* process could not be started at all.
C3_RetrySpawnsWorker ==
    [][\A j \in Jobs :
         db'[j].retry_count = db[j].retry_count + 1
            => /\ result'.op = "spawn"
               /\ result'.job_id = j
               /\ result'.error # "already running"]_vars

\* C7: when the queue-poller handles a job whose status is no longer pending
\* at update time, its conditional update has no effect and no worker is
\* started.
C7_SpawnOnlyAfterClaim ==
    [][(/\ jwPending # <<>>
        /\ jwPending' = Tail(jwPending)
        /\ db[Head(jwPending)].status # "pending")
          => Len(procs') = Len(procs)]_vars

\* C8: every job's retry_count is at most max_retries, and the retry scheduler
\* resets only jobs it selected as failed with retry_count below max_retries,
\* raising the selected retry_count by one.
C8_RetryBounded ==
    /\ [](\A j \in Jobs : db[j].retry_count <= max_retries)
    /\ [](\A i \in 1..Len(rmJobs) :
             rmJobs[i].status = "failed" /\ rmJobs[i].retry_count < max_retries)
    /\ [][\A j \in Jobs :
            db'[j].retry_count # db[j].retry_count
               => /\ rmJobs # <<>>
                  /\ Head(rmJobs).id = j
                  /\ db'[j].retry_count = Head(rmJobs).retry_count + 1
                  /\ db'[j].status = "pending"]_vars

C8_Witness ==
    \E j \in Jobs : db[j].status = "pending" /\ db[j].retry_count = max_retries

\* C9: a pause request succeeds only on a record in status running and leaves
\* it paused; a resume request succeeds only on a record in status paused and
\* leaves it running; a request that fails changes no record.
C9_PauseResume ==
    [][\A j \in Jobs :
         /\ (result' # result /\ result'.job_id = j /\ result'.op = "pause")
               => IF result'.status # "error"
                  THEN /\ Tracked(j)
                       /\ processes[j].status = "running"
                       /\ processes'[j].status = "paused"
                       /\ result'.status = "paused"
                  ELSE processes' = processes
         /\ (result' # result /\ result'.job_id = j /\ result'.op = "resume")
               => IF result'.status # "error"
                  THEN /\ Tracked(j)
                       /\ processes[j].status = "paused"
                       /\ processes'[j].status = "running"
                       /\ result'.status = "running"
                  ELSE processes' = processes
         /\ (Tracked(j) /\ processes'[j].status = "paused"
               /\ processes[j].status # "paused")
               => /\ processes[j].status = "running"
                  /\ result' = Ok("pause", j, "paused")
         /\ (Tracked(j) /\ processes[j].status = "paused"
               /\ processes'[j].status = "running")
               => result' = Ok("resume", j, "running")]_vars

C9_Witness ==
    \E j \in Jobs :
        /\ Tracked(j)
        /\ processes[j].status = "running"
        /\ result = Ok("resume", j, "running")

PageFetches == {k \in DOMAIN fetch_log : fetch_log[k].callback = "parse"}

\* C4: within one crawl no two fetches are issued for URLs that have the
\* same normalized form, whichever way the URLs were discovered (two seeds
\* included).
C4_NoDuplicateFetch ==
    \A k1, k2 \in PageFetches :
        k1 # k2 => _normalize_url(fetch_log[k1].url)
                      # _normalize_url(fetch_log[k2].url)

\* C5: for every fetched URL exactly one page result is emitted, whatever
\* the outcome of the fetch (success, HTTP error status, transport failure,
\* non-text content type).
C5_OneResultPerFetch ==
    \A k \in PageFetches : fetch_log[k].nitems = 1

\* C6: at most one page result is emitted per normalized URL, also when
\* requests are redirected.
C6_OneResultPerUrl ==
    \A k1, k2 \in DOMAIN items :
        k1 # k2 => _normalize_url(items[k1].url) # _normalize_url(items[k2].url)

\* ------------------------------------------------------------------ C11
\* worker p, started by the server, has exited by itself (exit code 0 or 1)
\* and nothing has reaped it yet
OwnExit(p) ==
    /\ p \in 1..Len(procs)
    /\ procs[p].owner = "server"
    /\ procs[p].state = "exited"
    /\ procs[p].code \in {Some(0), Some(1)}

\* the record of p's job holds p's exit code and the status that goes with it
ExitRecorded(p) ==
    /\ p \in 1..Len(procs)
    /\ procs[p].job \in DOMAIN processes
    /\ processes[procs[p].job].pid = p
    /\ procs[p].code # None
    /\ processes[procs[p].job].exit_code = procs[p].code
    /\ processes[procs[p].job].status = ExitStatus(procs[p].code[1])

SitemapFetches == {k \in DOMAIN fetch_log :
                      fetch_log[k].callback = "_parse_sitemap"}

\* C12: every sitemap fetch the worker issues (seed sitemaps, sitemaps nested
\* in a sitemap index, sitemaps found in robots.txt) is for an HTTPS URL whose
\* host resolves to an address that is not private, loopback or link-local.
C12_SitemapFetchesValidated ==
    \A k \in SitemapFetches :
        _validate_sitemap_url_security(fetch_log[k].url)

\* ------------------------------------------------------------------ C13
\* page requests yielded so far: those waiting and those downloaded
PagesYielded ==
    Cardinality({i \in DOMAIN scheduled : scheduled[i].callback = "parse"})
    + Cardinality(PageFetches)

\* the download the step just logged, if it logged one
Logged(kind) ==
    /\ Len(fetch_log') = Len(fetch_log) + 1
    /\ fetch_log'[Len(fetch_log')].kind = kind

C13_Limits ==
    /\ _sitemap_url_count <= SITEMAP_MAX_URLS
    /\ \A i \in DOMAIN scheduled :
          scheduled[i].sitemap_depth <= SITEMAP_MAX_RECURSION_DEPTH
    /\ \A k \in DOMAIN fetch_log :
          fetch_log[k].sitemap_depth <= SITEMAP_MAX_RECURSION_DEPTH

C13_Step ==
    /\ PagesYielded' - PagesYielded = _sitemap_url_count' - _sitemap_url_count
    /\ (Logged("sitemapindex")
          /\ fetch_log'[Len(fetch_log')].sitemap_depth
                >= SITEMAP_MAX_RECURSION_DEPTH)
         => scheduled' \in {RemoveAt(scheduled, i) : i \in DOMAIN scheduled}

\* C13: in a sitemap traversal the counter of page URLs yielded from sitemaps
\* counts every page request yielded and never exceeds SITEMAP_MAX_URLS, no
\* sitemap request carries a sitemap_depth above SITEMAP_MAX_RECURSION_DEPTH,
\* and a sitemap index downloaded at that depth yields no request.
C13_SitemapLimits == [](C13_Limits) /\ [][C13_Step]_vars

\* a sitemap index was downloaded at depth 5, and a urlset with a second new
\* page URL was cut at the URL limit
C13_Witness ==
    /\ _sitemap_url_count = SITEMAP_MAX_URLS
    /\ PagesYielded = 1
    /\ \E k \in DOMAIN fetch_log :
          /\ fetch_log[k].kind = "sitemapindex"
          /\ fetch_log[k].sitemap_depth = SITEMAP_MAX_RECURSION_DEPTH

\* ------------------------------------------------------------------ C14
\* C14: from any seed, chains of nested sitemap fetches are followed for at
\* most SITEMAP_MAX_RECURSION_DEPTH levels: no sitemap request is more than
\* that many sitemap downloads away from its seed.
C14_ChainsAtMostFiveLevels ==
    /\ \A i \in DOMAIN scheduled :
          scheduled[i].hops <= SITEMAP_MAX_RECURSION_DEPTH
    /\ \A k \in DOMAIN fetch_log :
          fetch_log[k].hops <= SITEMAP_MAX_RECURSION_DEPTH

\* ------------------------------------------------------------------ C15
\* requests the step added to the schedule: the engine takes the downloaded
\* request out and appends what the callback yielded
NewRequests ==
    {scheduled'[k] : k \in Len(scheduled)..Len(scheduled')}

C15_Depths ==
    crawl_mode = "crawl" =>
        /\ \A i \in DOMAIN scheduled : scheduled[i].depth <= max_depth
        /\ \A k \in DOMAIN items : items[k].depth <= max_depth
        /\ max_depth = 0 =>
              \A k \in DOMAIN fetch_log :
                  \E n \in DOMAIN start_urls : fetch_log[k].url = start_urls[n]

C15_Step ==
    (crawl_mode = "crawl" /\ Len(fetch_log') = Len(fetch_log) + 1) =>
        \A q \in NewRequests :
            q.depth = fetch_log'[Len(fetch_log')].depth + 1

\* C15: in crawl mode a URL discovered on a page of depth d is enqueued with
\* depth d+1, every enqueued request (and every page result) has
\* depth <= max_depth, and with max_depth = 0 only seed URLs are fetched.
C15_CrawlDepth == [](C15_Depths) /\ [][C15_Step]_vars

\* a page found on a page of depth 1 was downloaded and reported at depth 2
C15_Witness ==
    /\ crawl_mode = "crawl"
    /\ max_depth = 2
    /\ \E k \in DOMAIN items : items[k].depth = 2

\* ------------------------------------------------------------------ C16
C16_ResultsAtDepthZero ==
    \A k \in DOMAIN items : items[k].depth = 0

C16_OnlySeeds ==
    /\ \A i \in DOMAIN scheduled :
          \E n \in DOMAIN start_urls : scheduled[i].url = start_urls[n]
    /\ \A k \in DOMAIN fetch_log :
          /\ \E n \in DOMAIN start_urls : fetch_log[k].url = start_urls[n]
          /\ fetch_log[k].nitems = 1

\* C16: outside crawl mode no request comes from the links of a page: every
\* page result has depth 0, and in single/list mode the downloads are those
\* of the seed URLs, one page result each.
C16_NoLinkFollowing ==
    crawl_mode # "crawl" =>
        /\ C16_ResultsAtDepthZero
        /\ crawl_mode = "list" => C16_OnlySeeds

\* ------------------------------------------------------------------ C17
IsSeed(url) == \E n \in DOMAIN start_urls : url = start_urls[n]

\* some seed's scope predicate accepts the URL
AcceptedBySomeSeed(url) ==
    \E n \in DOMAIN start_urls :
        _matches_scope(_parse_url_info(url), _parse_url_info(start_urls[n]))

\* every page request enqueued from link discovery or from a urlset is for a
\* URL some seed accepts
C17_EnqueuedInScope ==
    \A i \in DOMAIN scheduled :
        (scheduled[i].callback = "parse" /\ ~IsSeed(scheduled[i].url))
            => AcceptedBySomeSeed(scheduled[i].url)

\* C17: with a scope in force (crawl and sitemap modes), every URL enqueued
\* from link discovery or from a sitemap urlset is accepted by the scope
\* predicate of at least one seed, and no URL accepted by no seed is
\* enqueued or fetched: every page downloaded is a seed's or an accepted one.
C17_OnlyInScope ==
    crawl_mode \in {"crawl", "sitemap"} =>
        /\ C17_EnqueuedInScope
        /\ \A k \in DOMAIN items :
              IsSeed(items[k].url) \/ AcceptedBySomeSeed(items[k].url)

\* ------------------------------------------------------------------ C18
\* the path continues the base path with "/" at the boundary, or equals it;
\* the base path is the seed's without trailing "/", empty for the root
UnderBasePath(path, base) ==
    \/ base = <<>>
    \/ path = base
    \/ /\ StartsWith(path, base)
       /\ Len(path) > Len(base)
       /\ path[Len(base) + 1] = "/"

\* C18: with scope subfolder or subdomain+subfolder, a candidate on the
\* seed's netloc passes the scope filter (of either spider) iff its path
\* equals the base path or continues it with "/" at the boundary; an empty
\* base path accepts every path.
C18_SubfolderScope ==
    (/\ result # NoResult
     /\ result.op = "scope"
     /\ scope \in {"subfolder", "subdomain+subfolder"}
     /\ result.url.netloc = start_urls[1].netloc)
    => LET expected == UnderBasePath(result.url.path,
                                     RStripSlash(start_urls[1].path))
       IN /\ result.in_scope = expected
          /\ result.allowed = expected

\* ------------------------------------------------------------------ C19
\* the last two dot-separated labels of a host
RootDomain(host) ==
    IF Len(host) >= 2 THEN <<host[Len(host) - 1], host[Len(host)]>> ELSE host

\* C19: with domain scope a candidate is in scope (for either spider) iff its
\* root domain equals the root domain of the seed: every subdomain of the
\* seed's root domain passes, every host with another root domain is
\* rejected.
C19_DomainScope ==
    (/\ result # NoResult
     /\ result.op = "scope"
     /\ scope = "domain")
    => LET expected == RootDomain(result.url.netloc)
                          = RootDomain(start_urls[1].netloc)
       IN /\ result.in_scope = expected
          /\ result.allowed = expected

\* ------------------------------------------------------------------ C20
\* C20: URL normalization is idempotent: for every URL string u,
\* _normalize_url(_normalize_url(u)) = _normalize_url(u).
C20_NormalizeIdempotent ==
    (result # NoResult /\ result.op = "_normalize_url" /\ result.twice # None)
        => result.twice = Some(result.once)

\* pages in the first k envelopes sent
RECURSIVE PagesSent(_)
PagesSent(k) ==
    IF k = 0 THEN 0 ELSE PagesSent(k - 1) + Len(envelopes[k].pages)

\* C21: in every envelope sent, stats.pages_crawled is the number of pages
\* in all the envelopes sent before it plus the pages it carries, whatever
\* became of the earlier sends.
C21_PagesCrawledIsRunningSum ==
    \A k \in 1..Len(envelopes) :
        envelopes[k].stats.pages_crawled = PagesSent(k)

\* the pages of the first k envelopes, in send order
RECURSIVE PagesInOrder(_)
PagesInOrder(k) ==
    IF k = 0 THEN <<>> ELSE PagesInOrder(k - 1) \o envelopes[k].pages

\* the items passed to process_item so far, as the API format shows them
ItemsShipped == [i \in 1..Len(items) |-> _convert_to_api_format(items[i])]

C22_Order ==
    /\ ship_pc = "open"
          => PagesInOrder(Len(envelopes)) \o items_buffer = ItemsShipped
    /\ ship_pc = "closed" => PagesInOrder(Len(envelopes)) = ItemsShipped

C22_Step ==
    Len(items') = Len(items) + 1
       => /\ Len(envelopes') > Len(envelopes)
                <=> Len(items_buffer) + 1 >= batch_size
          /\ Len(envelopes') > Len(envelopes) => items_buffer' = <<>>

\* C22: the pages of all envelopes, concatenated in send order, are the
\* items passed to process_item, in the same order and each once (while the
\* run is open, together with the buffer); process_item sends a running
\* envelope exactly when the buffer reaches batch_size and leaves the buffer
\* empty after it; the close envelope carries the remainder.
C22_OrderPreserved == [](C22_Order) /\ [][C22_Step]_vars

IsOpenEnvelope(e) ==
    e.status = "running" /\ e.pages = <<>> /\ e.by = "open_spider"

IsTerminal(e) == e.status \in {"completed", "failed"}

\* C23, as stated: in every worker run the first envelope is a running one
\* without pages, every envelope before the last is running, and a run that
\* has ended has sent a terminal envelope last, after which nothing is sent.
C23_EveryRunOpensWithRunning ==
    /\ envelopes # <<>>
          => /\ envelopes[1].status = "running"
             /\ envelopes[1].pages = <<>>
    /\ \A k \in 1..(Len(envelopes) - 1) : envelopes[k].status = "running"
    /\ ship_pc \in {"closed", "failed_to_start"}
          => /\ Len(envelopes) >= 2
             /\ IsTerminal(envelopes[Len(envelopes)])

C23_Sequence ==
    /\ ship_pc = "start" => envelopes = <<>>
    /\ ship_pc = "failed_to_start"
          => envelopes = <<Envelope("failed", <<>>, NoStats,
                                    "send_failure_status")>>
    /\ ship_pc \in {"open", "open_failed", "closed"}
          => /\ Len(envelopes) >= 1
             /\ IsOpenEnvelope(envelopes[1])
    /\ ship_pc \in {"open", "open_failed"}
          => \A k \in 2..Len(envelopes) :
                 /\ envelopes[k].status = "running"
                 /\ envelopes[k].by = "process_item"
    /\ ship_pc = "closed"
          => /\ Len(envelopes) >= 2
             /\ \A k \in 2..(Len(envelopes) - 1) :
                    /\ envelopes[k].status = "running"
                    /\ envelopes[k].by = "process_item"
             /\ IsTerminal(envelopes[Len(envelopes)])
             /\ envelopes[Len(envelopes)].by = "close_spider"

C23_Step ==
    ship_pc \in {"closed", "failed_to_start"} => envelopes' = envelopes

\* C23, amended: in every worker run whose spider is opened, the first
\* envelope is a running one without pages, sent by open_spider; the
\* envelopes sent by process_item are all running; once the spider is closed
\* the last envelope, and only the last, is terminal (completed or failed),
\* sent by close_spider, and nothing is sent after it.  A run that fails
\* before the crawl starts sends a single failed envelope without pages and
\* nothing else.
C23_EnvelopeSequence == [](C23_Sequence) /\ [][C23_Step]_vars

C23_Witness ==
    /\ ship_pc = "closed"
    /\ Len(envelopes) >= 3
    /\ envelopes[2].pages # <<>>
    /\ envelopes[Len(envelopes)].status = "completed"
    /\ envelopes[Len(envelopes)].pages # <<>>

\* C24: the final envelope says "completed" only when at least one page was
\* crawled without an error; when every item carries an error, or there was
\* no item, it says "failed".
C24_CompletedNeedsSuccess ==
    ship_pc = "closed"
       => (envelopes[Len(envelopes)].status = "completed"
              <=> \E i \in 1..Len(items) : ~items[i].error)

\* max_pages = 0 was asked for: by --max-pages 0, or by maxPages = 0 in the
\* job settings with no --max-pages
MaxPagesZero ==
    \/ args_max_pages = Some(0)
    \/ args_max_pages = None /\ settings_maxPages = Some(0)

\* C25: with max_pages = 0 the worker fetches nothing, and the run it closes
\* has sent exactly one terminal envelope, with status failed.
C25_MaxPagesZeroFetchesNothing ==
    MaxPagesZero
       => /\ fetch_log = <<>>
          /\ ship_pc = "closed"
                => /\ envelopes[Len(envelopes)].status = "failed"
                   /\ Cardinality({k \in 1..Len(envelopes) :
                                      IsTerminal(envelopes[k])}) = 1

\* the last pipeline call sent an envelope and the send failed
SendFailed ==
    /\ result.op \in {"open_spider", "process_item", "close_spider"}
    /\ result.op = "process_item" => result.sent
    /\ result.outcome # "success"

\* C26: a failed send never raises out of the shipper: the pipeline call
\* returns (process_item returns its item), and after process_item the
\* pages of the failed envelope are gone from the buffer, so that they are
\* never sent again.
C26_SendFailureSwallowed ==
    SendFailed
       => /\ ~result.raised
          /\ result.op = "process_item"
                => /\ result.returned = Some(result.item)
                   /\ items_buffer = <<>>

\* the last request carried "Authorization: Bearer <the configured key>"
CarriesKey ==
    api_key # None
       /\ http_request.authorization = <<"Bearer", " ", api_key[1]>>

IsHealthCheck ==
    http_request.method = "GET" /\ http_request.path = "/health"

C27_Answers ==
    http_request # NoRequest
       => /\ (api_key # None /\ ~IsHealthCheck /\ ~CarriesKey)
                => /\ http_response.code = 401
                   /\ http_response.called = "none"
          /\ IsHealthCheck
                => /\ http_response.code = 200
                   /\ http_response.called = "none"
          /\ (api_key = None \/ CarriesKey) => http_response.code # 401

C27_Step ==
    http_response'.code = 401 => UNCHANGED <<processes, procs, result, db>>

\* C27: with an API key configured, a GET or POST request other than
\* GET /health that does not carry "Authorization: Bearer <that key>" is
\* answered 401, calls no ProcessManager method and changes nothing;
\* GET /health is answered 200 whatever the header; with the key, or with
\* no key configured, no request is answered 401.
C27_AuthRequired == [](C27_Answers) /\ [][C27_Step]_vars

C27_Witness ==
    /\ api_key # None
    /\ http_request.method = "POST"
    /\ http_request.path = "/kill/"
    /\ http_request.authorization = <<"Bearer", " ", "k2">>
    /\ http_response.code = 401
    /\ 1 \in DOMAIN processes
    /\ processes[1].status = "running"

\* the error strings that report the missing column
SchemaErrorStrings ==
    {<<"column crawl_jobs.", "retry_count does not exist">>,
     <<"{'code': '", "42703", "'}">>}

C28_Disabled ==
    /\ disabled <=> rm_errors \cap SchemaErrorStrings # {}
    /\ disable_logged = IF disabled THEN 1 ELSE 0
    /\ disabled => rmJobs = <<>>
    /\ (jwPending = <<>> /\ \E j \in Jobs : db[j].status = "pending")
          => ENABLED _process_pending_jobs_select

C28_Step ==
    disabled
       => /\ disabled'
          /\ rmJobs' = <<>>
          /\ disable_logged' = disable_logged
          /\ \A j \in Jobs :
                /\ db'[j].retry_count = db[j].retry_count
                /\ db[j].status = "failed" => db'[j] = db[j]

\* C28: the retry scheduler is disabled exactly when its loop has caught an
\* error whose message holds "retry_count does not exist" or "42703"; any
\* other error leaves it enabled.  Once disabled it stays disabled, never
\* queries again, resets no failed job, and has printed the reason once;
\* the queue-poller can still take up pending jobs.
C28_RetryDisabledForGood == [](C28_Disabled) /\ [][C28_Step]_vars

\* disabled after another error had left it enabled, with a failed job whose
\* backoff has elapsed left alone, and a job the poller has started
C28_Witness ==
    /\ disabled
    /\ <<"connection refused">> \in rm_errors
    /\ \E j \in Jobs :
          /\ db[j].status = "failed"
          /\ db[j].retry_count < max_retries
          /\ BackoffElapsed(db[j])
    /\ \E j \in Jobs : j \in DOMAIN processes /\ db[j].status = "running"

\* 2^k minutes have passed since the failed_at of row j, k its retry_count
TwoToTheKMinutesPassed(j) ==
    /\ db[j].failed_at # None
    /\ now - db[j].failed_at[1] >= Pow2(db[j].retry_count)

\* the retry scheduler handles job j: one iteration of its loop over the
\* selected rows
RetrySchedulerHandles(j) ==
    /\ rmJobs # <<>>
    /\ Head(rmJobs).id = j
    /\ rmJobs' = Tail(rmJobs)

\* C29: the retry scheduler resets a failed job with retry_count = k only
\* when at least 2^k minutes have passed since its failed_at: when it handles
\* a failed job before that, the row stays as it is, no worker is started
\* and no spawn is attempted.
C29_BackoffRespected ==
    [][\A j \in Jobs :
         (/\ RetrySchedulerHandles(j)
          /\ db[j].status = "failed"
          /\ ~TwoToTheKMinutesPassed(j))
            => /\ db'[j] = db[j]
               /\ NumStarted(j)' = NumStarted(j)
               /\ result' = result]_vars

\* a job reset from retry_count 2, four minutes after it failed, while the
\* scheduler is about to handle another failed job whose backoff has not
\* passed
C29_Witness ==
    /\ \E j \in Jobs :
          /\ db[j].status = "pending"
          /\ db[j].retry_count = 3
          /\ NumStarted(j) = 1
    /\ \E j \in Jobs :
          /\ rmJobs # <<>>
          /\ Head(rmJobs).id = j
          /\ db[j].status = "failed"
          /\ ~TwoToTheKMinutesPassed(j)

\* the worker of job_id's record is held by a pause signal: suspended by
\* SIGSTOP, or halted by the break signal on Windows
StillSuspended(job_id) ==
    procs[processes[job_id].pid].state = "stopped"

\* C30: a record in status running never belongs to a worker that is still
\* suspended by an earlier pause: after a successful resume the worker is
\* executing again, whatever os.name is.
C30_RunningIsNotSuspended ==
    \A job_id \in DOMAIN processes :
        processes[job_id].status = "running" => ~StillSuspended(job_id)

\* the download of a response with an HTTP error status
IsHttpErrorResponse(fetch) ==
    fetch.kind = "response" /\ fetch.status >= 400

\* the page result a response is due: its status, its body, no error
IsPageResultOf(item, url, fetch) ==
    /\ item.url = url
    /\ item.status_code = Some(fetch.status)
    /\ item.raw_html = fetch.body
    /\ ~item.error

\* C31: a response with HTTP status >= 400 is not an error: the step that
\* receives it yields one page result with that status code and the body, no
\* error field, and counts it in pages_crawled and not in pages_errored.
C31_HttpErrorStatusIsAPage ==
    [][\A url \in ShipUrls, fetch \in ShipFetches, outcome \in SendOutcomes :
         (IsHttpErrorResponse(fetch) /\ scrape(url, fetch, outcome))
            => /\ Len(items') = Len(items) + 1
               /\ IsPageResultOf(items'[Len(items')], url, fetch)
               /\ stats'.pages_crawled = stats.pages_crawled + 1
               /\ stats'.pages_errored = stats.pages_errored]_vars

\* the step ends the download of a page request with a transport failure
PageFetchFails ==
    /\ Len(fetch_log') = Len(fetch_log) + 1
    /\ fetch_log'[Len(fetch_log')].kind = "failure"
    /\ fetch_log'[Len(fetch_log')].callback = "parse"

\* the synthetic page result of a failed download of url
IsFailureResult(item, url) ==
    /\ item.url = url
    /\ item.status_code = None
    /\ item.error
    /\ item.raw_html = ""

\* the item reached the shipper: it waits in the buffer or went out in the
\* envelope this step sent
ShippedOrBuffered(url) ==
    \/ /\ items_buffer' # <<>>
       /\ IsFailureResult(items_buffer'[Len(items_buffer')], url)
    \/ /\ Len(envelopes') = Len(envelopes) + 1
       /\ envelopes'[Len(envelopes')].pages # <<>>
       /\ LET pages == envelopes'[Len(envelopes')].pages
          IN IsFailureResult(pages[Len(pages)], url)

\* C32: a page fetch that fails without a response yields one page result
\* for the requested URL with status_code null, an error and an empty body;
\* where the shipper runs it is shipped and counted in pages_errored, and the
\* run goes on.
C32_FailureYieldsResult ==
    [][PageFetchFails
          => /\ Len(items') = Len(items) + 1
             /\ IsFailureResult(items'[Len(items')],
                                fetch_log'[Len(fetch_log')].url)
             /\ ship_pc = "open"
                   => /\ stats'.pages_errored = stats.pages_errored + 1
                      /\ ShippedOrBuffered(fetch_log'[Len(fetch_log')].url)
                      /\ ship_pc' = "open"]_vars

\* an earlier download on the host of url was answered over plain HTTP; a
\* plain response that showed render signals is one of these
PriorPlainResponse(url) ==
    \E k \in 1..Len(fetch_log) :
        /\ fetch_log[k].kind \in {"text", "nontext", "raised"}
        /\ ~fetch_log[k].playwright
        /\ fetch_log[k].url.netloc = url.netloc

\* C34: every page request uses the renderer or not by js_mode: never with
\* off, always with full, and with auto at depth 0 and, deeper, only after a
\* plain-HTTP response on the same host (which showed render signals).
C34_RendererSelection ==
    \A i \in DOMAIN scheduled :
        scheduled[i].callback = "parse"
           => /\ js_mode = "off" => ~scheduled[i].playwright
              /\ js_mode = "full" => scheduled[i].playwright
              /\ js_mode = "auto"
                    => /\ scheduled[i].depth = 0 => scheduled[i].playwright
                       /\ (scheduled[i].depth > 0 /\ scheduled[i].playwright)
                             => PriorPlainResponse(scheduled[i].url)

\* the step is a spawn of job_id that failed to start the process
SpawnFailed(job_id) ==
    /\ result' # result
    /\ result'.op = "spawn"
    /\ result'.job_id = job_id
    /\ result'.error = "exception"

PollSucceeded == _watch_loop
PollFailed(error_str) == _handle_error(error_str)

\* C35: in a run of consecutive failed polls the "unavailable" line is
\* printed at the first transient error and at no other, so once in the run;
\* the reminder is printed only when the count of consecutive errors is a
\* multiple of 60; the first successful poll afterwards prints one
\* "restored" notice, and a successful poll with no transient error before
\* it prints none.
C35_UnavailableOnceRestoredOnce ==
    [][/\ \A error_str \in WatchErrorStrings :
             PollFailed(error_str) =>
                /\ (jw_printed' = <<"unavailable">>)
                      <=> (error_str \in TransientErrors
                             /\ jw_run.transient = 0)
                /\ jw_run'.unavailable <= 1
                /\ jw_printed' = <<"still waiting">>
                      => consecutive_errors' % REMINDER_EVERY = 0
       /\ PollSucceeded =>
             jw_printed' = IF jw_run.transient > 0
                           THEN <<"restored">> ELSE <<>>]_vars

\* the reminder has been printed at the 120th failed poll of a run that
\* printed "unavailable" once
C35_Witness ==
    /\ jw_printed = <<"still waiting">>
    /\ consecutive_errors = 2 * REMINDER_EVERY
    /\ jw_run.unavailable = 1

\* C36: when sections raise on a page, the item the pipeline returns holds
\* {error: message} in the field of each section that raised and the value
\* of every other section.
C36_SectionFailureIsLocal ==
    page_item # <<>>
       => \A s \in SectionNames :
             page_item[1][s] = IF s \in raw_page THEN "error" ELSE "value"

\* the same, for the sections that sit in a try block of their own
C36_GuardedSectionFailureIsLocal ==
    (page_item # <<>>
       /\ \A s \in raw_page :
             \E i \in 1..Len(Sections) :
                Sections[i].name = s /\ Sections[i].guarded)
       => \A s \in SectionNames :
             page_item[1][s] = IF s \in raw_page THEN "error" ELSE "value"

\* C37: the effective max depth is the value of --max-depth when the option
\* is on the command line, else settings.maxDepth when the API gives one,
\* else 0 for urls_only, sitemap and all_existing and 10 for full.
C37_MaxDepthPriority ==
    effective_max_depth # None
       => effective_max_depth[1] =
             IF argv_max_depth # None THEN argv_max_depth[1]
             ELSE IF max_depth_from_api # None THEN max_depth_from_api[1]
             ELSE IF main_crawl_mode \in {"urls_only", "sitemap",
                                          "all_existing"}
             THEN 0
             ELSE 10

\* the same, for command lines that do not give --max-depth 10
C37_MaxDepthPriorityNotTen ==
    (effective_max_depth # None /\ argv_max_depth # Some(DEFAULT_MAX_DEPTH))
       => effective_max_depth[1] =
             IF argv_max_depth # None THEN argv_max_depth[1]
             ELSE IF max_depth_from_api # None THEN max_depth_from_api[1]
             ELSE IF main_crawl_mode \in {"urls_only", "sitemap",
                                          "all_existing"}
             THEN 0
             ELSE 10

\* when the record ended: its finished_at, and for a record killed without
\* one the time of the kill, which is the present (the clock of SpecCleanup
\* stands still)
FinishedAt(info) ==
    IF info.finished_at = None THEN now ELSE info.finished_at[1]

\* C38: cleanup_finished removes only terminal records and changes no record
\* it keeps; afterwards at most 50 terminal records remain, and no record it
\* removed ended later than a terminal record it kept, force-killed records
\* included.
C38_CleanupKeepsNewest ==
    [][cleanup_finished =>
          /\ \A jid \in DOMAIN processes \ DOMAIN processes' :
                processes[jid].status \in TerminalStatuses
          /\ DOMAIN processes' \subseteq DOMAIN processes
          /\ \A jid \in DOMAIN processes' : processes'[jid] = processes[jid]
          /\ Cardinality(Finished(processes')) <= KEEP_FINISHED
          /\ \A gone \in DOMAIN processes \ DOMAIN processes' :
                \A kept \in Finished(processes') :
                   FinishedAt(processes[gone]) <= FinishedAt(processes[kept])
    ]_vars

\* the same without the order of the records that have no finished_at
C38_CleanupKeepsNewestStamped ==
    [][cleanup_finished =>
          /\ \A jid \in DOMAIN processes \ DOMAIN processes' :
                processes[jid].status \in TerminalStatuses
          /\ DOMAIN processes' \subseteq DOMAIN processes
          /\ \A jid \in DOMAIN processes' : processes'[jid] = processes[jid]
          /\ Cardinality(Finished(processes')) <= KEEP_FINISHED
          /\ \A gone \in DOMAIN processes \ DOMAIN processes' :
                processes[gone].finished_at # None
                   => \A kept \in Finished(processes') :
                         FinishedAt(processes[gone])
                            <= FinishedAt(processes[kept])
    ]_vars

\* a stop signal has been handled
StopHandled == \E i \in 1..Len(handled) : handled[i] = "stop"

\* C39: once a stop signal has been handled, wait_if_paused does not block
\* (the event is set) and every call of it returns False, whatever signals
\* were handled after the stop.
C39_StopIsFinal ==
    [][StopHandled =>
          /\ ENABLED wait_if_paused
          /\ wait_if_paused => waited' = <<FALSE>>]_vars

\* the part about the returned value
C39_StoppedWaitReturnsFalse ==
    [][(StopHandled /\ wait_if_paused) => waited' = <<FALSE>>]_vars

\* the errors of a request the worker map does not allow: unknown job_id,
\* wrong state for the operation, duplicate spawn
RequestErrors ==
    {"not found", "not running", "not paused", "already finished",
     "already running"}

\* this step is a spawn, pause, resume or kill request
ProcessRequest ==
    \E j \in Jobs : HttpSpawn(j) \/ HttpPause(j) \/ HttpResume(j) \/ HttpKill(j)

\* C40: a spawn, pause, resume or kill request that returns one of these
\* errors leaves the worker map with every record as it was, and no process
\* is signalled: every OS process is in the state it was in.
C40_RejectedRequestChangesNothing ==
    [][(ProcessRequest
          /\ result'.status = "error"
          /\ result'.error \in RequestErrors)
         => /\ processes' = processes
            /\ procs' = procs]_vars

\* a kill has been refused for a worker that had finished, with another
\* worker in the map
C40_Witness ==
    /\ result.op = "kill"
    /\ result.status = "error"
    /\ result.error = "already finished"
    /\ Cardinality(DOMAIN processes) > 1

====
